---- MODULE Spec2Model ----
(***************************************************************************)
(* Mask lifecycle and batch orchestration of the watermark tools.          *)
(*                                                                         *)
(*   image_tools/watermark/watermark_remover.py  WatermarkRemover          *)
(*   image_tools/watermark/watermark_tab.py      pointer handlers          *)
(*   image_tools/watermark/batch_processor.py    BatchWatermarkProcessor   *)
(*   image_tools/core/watermark_remover.py       WatermarkRemover          *)
(*                                               .batch_process            *)
(*                                                                         *)
(* One WatermarkRemover instance is modelled: the one the pointer handlers *)
(* paint on.  In batch mode it is the processor's template remover.        *)
(* Images are small rasters; a mask is a record [h, w, px] whose px maps   *)
(* each pixel <<x, y>> to its value.  The inpainting oracle is an          *)
(* uninterpreted record of its four arguments.                             *)
(***************************************************************************)
EXTENDS Integers, Sequences, FiniteSets, TLC

\* Python's None where an object is expected.
None == [none |-> TRUE]

(***************************************************************************)
(* Bounds of the model.                                                    *)
(***************************************************************************)
\* Longest mask history explored.
MaxHistory == 3
\* Strokes of the undo/redo scenario.
MaxStrokes == 2
\* Batch threads started in one run of the program.
MaxBatches == 2
\* Calls the user makes on the batch tab in one run of the program.
MaxCalls == 4
\* Removal threads the single-image tab starts in one run of the program.
MaxRemovals == 2

(***************************************************************************)
(* The files the dialogs can hand to the program.                          *)
(***************************************************************************)
\* Paths offered to load_image: two decodable images of different sizes, a file
\* that exists but does not decode, and a path that does not exist.
LoadPaths == {"tpl.png", "wide.png", "corrupt.png", "missing.png"}

\* os.path.exists(image_path)
PathExists(path) == path # "missing.png"

\* cv2.imread / PIL.Image.open: the decoded image, None when neither decodes.
ImRead(path) ==
    CASE path = "tpl.png"  -> [src |-> "tpl.png",  w |-> 2, h |-> 2]
      [] path = "wide.png" -> [src |-> "wide.png", w |-> 3, h |-> 1]
      [] path = "tall.png" -> [src |-> "tall.png", w |-> 3, h |-> 6]
      [] path = "strip.png" -> [src |-> "strip.png", w |-> 20, h |-> 1]
      [] OTHER             -> None

\* canvas.winfo_width() / winfo_height()
CanvasSizes == {<<4, 4>>}

\* Pointer positions on the canvas.
CanvasPoints == {<<0, 0>>, <<3, 3>>}

\* brush_size_var.get()
BrushSizes == {2}

\* Lists set_batch_images can be given.  "a/x.png" and "b/x.png" share a base
\* name; "c/bad.png" cannot be read, cv2.inpaint raises on "c/deep.png" and
\* nothing can encode a result as "c/odd.xyz".
BatchLists == {<<"a/x.png", "b/x.png">>,
               <<"c/bad.png", "a/x.png">>,
               <<"c/deep.png", "b/x.png">>,
               <<"c/odd.xyz">>}

\* cv2.imread / PIL.Image.open in _process_single_image
BatchImRead(path) ==
    CASE path = "a/x.png"    -> [src |-> path, w |-> 2, h |-> 2]
      [] path = "b/x.png"    -> [src |-> path, w |-> 3, h |-> 1]
      [] path = "c/deep.png" -> [src |-> path, w |-> 2, h |-> 2]
      [] path = "c/odd.xyz"  -> [src |-> path, w |-> 2, h |-> 2]
      [] OTHER               -> None

\* cv2.inpaint raises on this source.
OracleRaises(path) == path = "c/deep.png"

\* cv2.imwrite and PIL both fail to write a result for this source.
WriteFails(path) == path = "c/odd.xyz"

\* os.path.basename and os.path.splitext of a source path
BaseName(path) ==
    CASE path \in {"a/x.png", "b/x.png"} -> [name |-> "x", ext |-> ".png"]
      [] path = "c/bad.png"               -> [name |-> "bad", ext |-> ".png"]
      [] path = "c/deep.png"              -> [name |-> "deep", ext |-> ".png"]
      [] OTHER                            -> [name |-> "odd", ext |-> ".xyz"]

\* Directories set_output_directory can be given: "out" exists and is
\* writable, "ro" exists and is not writable.
OutputDirs == {"out", "ro"}
DirWritable(dir) == dir = "out"

\* (inpaint_radius, algorithm) pairs set_parameters can be given.
ParameterChoices == {<<3, "TELEA">>, <<5, "ns">>}

\* Lists core.WatermarkRemover.batch_process can be given, and the paths and
\* algorithm codes its load_image and set_algorithm can be given.
CoreLists == {<<"a/x.png", "b/x.png">>, <<"c/bad.png", "a/x.png">>}
CoreLoadPaths == {"tpl.png", "missing.png"}
CoreAlgorithms == {"ns", "telea", "sepia"}

\* self.brush_size of core.WatermarkRemover
core_brush_size == 15

\* batch_process's parameter max_workers
core_max_workers == 4

\* os.cpu_count() on the machines considered.
CpuCounts == {1, 8}

VARIABLES
    \* WatermarkRemover
    image, original_image, mask, result_image,
    mask_history, history_index,
    \* the positions of mask_history whose array is the array of self.mask
    shared,
    display_width, display_height, scale_factor,
    \* WatermarkTab pointer state
    drawing, last_x, last_y,
    \* the mouse button (environment) and the value the last call returned
    pressed, ret,
    \* the single-image tab: the thread of _process_watermark_thread (its
    \* position in remove_watermark and its locals), the threads started so
    \* far, the interactive thread's position in continue_edit_result, and
    \* the method the interactive thread called last
    removal, removals, ui_pc, last_call,
    \* BatchWatermarkProcessor
    image_paths, output_dir, processed_count, success_count, failed_paths,
    is_processing, should_stop, inpaint_radius, algorithm, max_workers,
    \* _batch_process_thread: its position, its locals total_count and
    \* template_mask (a reference), the futures of its pool, and the threads
    \* that have left line 245 and not yet called complete_callback
    thread_pc, total_count, template_mask, tasks, completing,
    \* the output directories' files
    files,
    \* what the callbacks received, the batch threads started so far, and the
    \* processor's configuration as it was when the last batch was started
    complete_calls, start_errors, progress_calls, threads_started, job,
    \* bookkeeping of the undo/redo scenario
    phase, strokes, snaps, undos, redos, final_mask,
    \* calls made on the batch tab so far
    calls,
    \* core.WatermarkRemover: its fields, and batch_process's position, locals
    \* (current_mask, current_algorithm, results, the futures and the index of
    \* the collecting loop) and output files
    core_original_image, core_current_image, core_mask, core_algorithm,
    core_pc, current_mask, current_algorithm, results, core_tasks,
    core_collected, core_files,
    \* core.WatermarkRemover used on one image: its fields preview_quality and
    \* detected_regions, what remove_watermark and detect_watermark returned
    \* last, the records the last call passed to logging, and the OpenCV build
    \* (the major version and whether cv2.inpaint raises on a block), and the
    \* bounding boxes of the contours the last detect_watermark found
    preview_quality, detected_regions, core_ret, detect_ret, core_log, cv2_env,
    contours,
    \* core.WatermarkRemover's last_point: <<>> for None, <<point>> otherwise
    last_point,
    \* the canvas widget's size (winfo_width, winfo_height), and the last call
    \* of canvas_to_image_coords: its argument, the fields it read and the
    \* point it returned; the arguments of the last paint method called on
    \* the tab's remover
    canvas, coords, stroke,
    \* utils.config_manager.ConfigManager: self.config and self.default_config
    \* (their nested dictionaries are objects of settings_heap, which the two
    \* may share), the contents of config.json and the last call's return
    config, default_config, settings_heap, config_file, config_ret

removerVars == <<image, original_image, mask, result_image,
                 mask_history, history_index, shared>>
displayVars == <<display_width, display_height, scale_factor>>
tabVars     == <<drawing, last_x, last_y, pressed>>
editVars    == <<removerVars, displayVars, tabVars, ret>>
singleVars  == <<removal, removals, ui_pc, last_call>>
scenarioVars == <<phase, strokes, snaps, undos, redos, final_mask>>
\* the batch variables the remover's methods never touch
batchOnlyVars == <<image_paths, output_dir, processed_count, success_count,
                   failed_paths, is_processing, should_stop, inpaint_radius,
                   algorithm, max_workers, thread_pc, total_count, tasks,
                   completing, files, complete_calls, start_errors,
                   progress_calls, threads_started, job>>
batchVars   == <<template_mask, batchOnlyVars>>
toolVars    == <<preview_quality, detected_regions, core_ret, detect_ret,
                 core_log, cv2_env, contours, last_point>>
coreVars    == <<core_original_image, core_current_image, core_mask,
                 core_algorithm, core_pc, current_mask, current_algorithm,
                 results, core_tasks, core_collected, core_files, toolVars>>
configVars  == <<config, default_config, settings_heap, config_file, config_ret>>
viewVars    == <<canvas, coords, stroke, configVars>>
vars        == <<editVars, singleVars, batchVars, scenarioVars, calls, coreVars,
                 viewVars>>

(***************************************************************************)
(* Rasters.                                                                *)
(***************************************************************************)
Max(a, b) == IF a >= b THEN a ELSE b
Min(a, b) == IF a <= b THEN a ELSE b

\* int(a / b) for b > 0: Python's int() truncates toward zero.
TruncDiv(a, b) == IF a >= 0 THEN a \div b ELSE -((-a) \div b)

\* A faulty np.zeros call with the two sizes exchanged.
ZerosTransposed(h, w) ==
    [h |-> w, w |-> h, px |-> [p \in (0..(h-1)) \X (0..(w-1)) |-> 0]]

\* A faulty blank mask with every pixel set.
ZerosAllSet(h, w) ==
    [h |-> h, w |-> w, px |-> [p \in (0..(w-1)) \X (0..(h-1)) |-> 255]]

\* np.zeros((h, w), dtype=np.uint8)
Zeros(h, w) == [h |-> h, w |-> w, px |-> [p \in (0..(w-1)) \X (0..(h-1)) |-> 0]]

\* mask.shape[:2] != image.shape[:2]
ShapeDiffers(m, img) == m.h # img.h \/ m.w # img.w

\* np.max(mask)
MaskMax(m) == CHOOSE v \in {m.px[p] : p \in DOMAIN m.px} :
                  \A p \in DOMAIN m.px : m.px[p] <= v

\* Writes 255 into the pixels of S that lie inside the array (OpenCV clips).
Fill(m, S) == [m EXCEPT !.px = [p \in DOMAIN m.px |->
                                    IF p \in S THEN 255 ELSE m.px[p]]]

\* cv2.circle(mask, c, radius, 255, -1): the filled disc around c.
Circle(m, c, radius) ==
    Fill(m, {p \in DOMAIN m.px :
                (p[1] - c[1]) * (p[1] - c[1]) + (p[2] - c[2]) * (p[2] - c[2])
                    <= radius * radius})

\* Four times the squared distance of p to the segment a-b, scaled by dd*dd
\* (dd the squared length of the segment), in integers.
SegDist4(p, a, b) ==
    LET dx == b[1] - a[1]
        dy == b[2] - a[2]
        dd == dx * dx + dy * dy
        qx == p[1] - a[1]
        qy == p[2] - a[2]
        t  == Max(0, Min(dd, qx * dx + qy * dy))
        ex == qx * dd - t * dx
        ey == qy * dd - t * dy
    IN  IF dd = 0 THEN [num |-> 4 * (qx * qx + qy * qy), den |-> 1]
        ELSE [num |-> 4 * (ex * ex + ey * ey), den |-> dd * dd]

\* cv2.line(mask, a, b, 255, thickness): the pixels within thickness/2 of the
\* segment (OpenCV draws thick lines with rounded ends).
Line(m, a, b, thickness) ==
    Fill(m, {p \in DOMAIN m.px :
                LET d == SegDist4(p, a, b)
                IN  d.num <= thickness * thickness * d.den})

(***************************************************************************)
(* WatermarkRemover: display scale and coordinate conversion.              *)
(***************************************************************************)
\* set_display_size: min(width / img_w, height / img_h) * 0.9 as the exact
\* fraction <<numerator, denominator>>.
FitScale(width, height, img) ==
    IF width * img.h <= height * img.w
    THEN <<9 * width, 10 * img.w>>
    ELSE <<9 * height, 10 * img.h>>

\* canvas_to_image_coords without lines 162-163.
CanvasToImageCoordsUnclamped(pt, img, dw, dh, sc) ==
    IF img = None THEN pt
    ELSE LET scaled_width  == (img.w * sc[1]) \div sc[2]
             scaled_height == (img.h * sc[1]) \div sc[2]
             x_offset == Max(0, (dw - scaled_width) \div 2)
             y_offset == Max(0, (dh - scaled_height) \div 2)
         IN  <<TruncDiv((pt[1] - x_offset) * sc[2], sc[1]),
               TruncDiv((pt[2] - y_offset) * sc[2], sc[1])>>

\* canvas_to_image_coords with the whole margin as the offset.
CanvasToImageCoordsUncentred(pt, img, dw, dh, sc) ==
    IF img = None THEN pt
    ELSE LET scaled_width  == (img.w * sc[1]) \div sc[2]
             scaled_height == (img.h * sc[1]) \div sc[2]
             x_offset == Max(0, dw - scaled_width)
             y_offset == Max(0, dh - scaled_height)
             img_x == TruncDiv((pt[1] - x_offset) * sc[2], sc[1])
             img_y == TruncDiv((pt[2] - y_offset) * sc[2], sc[1])
         IN  <<Max(0, Min(img_x, img.w - 1)), Max(0, Min(img_y, img.h - 1))>>

\* canvas_to_image_coords
CanvasToImageCoords(pt, img, dw, dh, sc) ==
    IF img = None THEN pt
    ELSE LET scaled_width  == (img.w * sc[1]) \div sc[2]
             scaled_height == (img.h * sc[1]) \div sc[2]
             x_offset == Max(0, (dw - scaled_width) \div 2)
             y_offset == Max(0, (dh - scaled_height) \div 2)
             img_x == TruncDiv((pt[1] - x_offset) * sc[2], sc[1])
             img_y == TruncDiv((pt[2] - y_offset) * sc[2], sc[1])
         IN  <<Max(0, Min(img_x, img.w - 1)), Max(0, Min(img_y, img.h - 1))>>

\* A validity test that accepts every point.
InMaskAlways(m, p) == TRUE

\* The validity test 0 <= x < w and 0 <= y < h of the paint methods.
InMask(m, p) == 0 <= p[1] /\ p[1] < m.w /\ 0 <= p[2] /\ p[2] < m.h

\* max(1, brush_size // 2)
BrushRadius(brush_size) == Max(1, brush_size \div 2)

(***************************************************************************)
(* WatermarkRemover: painting.  Each operator gives the array the method   *)
(* leaves in self.mask.                                                    *)
(***************************************************************************)
\* The array the paint methods work on: a fresh zero array when the shapes
\* differ, else self.mask itself.
WorkMask(m, img) == IF ShapeDiffers(m, img) THEN Zeros(img.h, img.w) ELSE m

\* start_draw
StartDrawMask(m, img, pt, brush_size, dw, dh, sc) ==
    LET m0 == WorkMask(m, img)
        ip == CanvasToImageCoords(pt, img, dw, dh, sc)
    IN  IF InMask(m0, ip) THEN Circle(m0, ip, BrushRadius(brush_size)) ELSE m0

\* draw_line_on_mask, up to the preview update
DrawLineMask(m, img, from, to, brush_size, dw, dh, sc) ==
    LET m0 == WorkMask(m, img)
        a  == CanvasToImageCoords(from, img, dw, dh, sc)
        b  == CanvasToImageCoords(to, img, dw, dh, sc)
        r  == BrushRadius(brush_size)
    IN  IF InMask(m0, a) /\ InMask(m0, b)
        THEN Circle(Circle(Line(m0, a, b, brush_size), a, r), b, r)
        ELSE m0

(***************************************************************************)
(* WatermarkRemover: mask history.                                         *)
(***************************************************************************)
\* A faulty _save_mask_to_history that leaves the cursor behind the last
\* snapshot.
SaveMaskCursorPastEnd(hist, idx, m) ==
    IF m = None THEN [history |-> hist, index |-> idx]
    ELSE [history |-> Append(hist, m), index |-> Len(hist) + 1]

\* A faulty _save_mask_to_history that pushes the first snapshot only.
SaveMaskOnlyFirst(hist, idx, m) ==
    IF m = None \/ hist # <<>> THEN [history |-> hist, index |-> idx]
    ELSE [history |-> <<m>>, index |-> 0]

\* A faulty _save_mask_to_history that keeps the snapshots after the cursor.
SaveMaskKeepingFuture(hist, idx, m) ==
    IF m = None THEN [history |-> hist, index |-> idx]
    ELSE [history |-> Append(hist, m), index |-> Len(hist)]

\* _save_mask_to_history: the history and cursor it leaves.
SaveMaskToHistory(hist, idx, m) ==
    IF m = None THEN [history |-> hist, index |-> idx]
    ELSE LET kept == IF idx < Len(hist) - 1 THEN SubSeq(hist, 1, idx + 1) ELSE hist
             new  == Append(kept, m)
         IN  [history |-> new, index |-> Len(new) - 1]

\* A faulty test of undo_mask that lets the cursor leave the history.
UndoRefusedOnlyEmpty(hist, idx) == hist = <<>>

\* A faulty test of undo_mask that never goes back to the load-time snapshot.
UndoRefusedAtOne(hist, idx) == hist = <<>> \/ idx <= 1

\* undo_mask refuses: "not self.mask_history or self.history_index <= 0"
UndoRefused(hist, idx) == hist = <<>> \/ idx <= 0

\* redo_mask refuses: "self.history_index >= len(self.mask_history) - 1"
RedoRefused(hist, idx) == idx >= Len(hist) - 1

\* A faulty restore that always takes the oldest snapshot.
SnapshotFirst(hist, i) == hist[1]

\* self.mask_history[i]: Python counts a negative index from the end.
Snapshot(hist, i) == hist[(IF i < 0 THEN i + Len(hist) ELSE i) + 1]

\* A _save_mask_to_history that appends self.mask itself.
SharedAfterSaveNoCopy(sh, kept) == {i \in sh : i <= kept} \cup {kept + 1}

\* _save_mask_to_history, "mask_copy = self.mask.copy()": of the kept
\* snapshots those that shared the mask's array still do, the new one is
\* another array.
SharedAfterSave(sh, kept) == {i \in sh : i <= kept}

\* An undo_mask and redo_mask that assign the snapshot itself.
SharedAfterRestoreNoCopy(position) == {position}

\* undo_mask and redo_mask, "self.mask = self.mask_history[...].copy()": the
\* mask is a new array that no snapshot shares.
SharedAfterRestore(position) == {}

\* The snapshots after self.mask was painted in place and holds m: those
\* that share its array hold m too.
InPlace(hist, sh, m) ==
    IF sh = {} THEN hist
    ELSE [i \in DOMAIN hist |-> IF i \in sh THEN m ELSE hist[i]]

\* A paint method replaces the mask by a new array before it paints.
Replaces == mask # None /\ image # None /\ ShapeDiffers(mask, image)

\* The snapshots and their sharing after a paint method that pushes nothing.
PaintedInPlace ==
    /\ mask_history' = IF mask # None /\ image # None /\ ~Replaces
                        THEN InPlace(mask_history, shared, mask')
                        ELSE mask_history
    /\ shared' = IF Replaces THEN {} ELSE shared

\* The reference a running batch thread holds when self.mask is rebound to a
\* new array: the old array stays as it was.
Rebound(t) == IF t.kind = "live" THEN [kind |-> "array", val |-> mask] ELSE t

(***************************************************************************)
(* WatermarkRemover: methods.  ret is "True", "False" or "None".           *)
(***************************************************************************)
\* load_image.  A file that exists but does not decode has already replaced
\* self.original_image by imread's None when PIL raises.
LoadImage(path) ==
    /\ IF ~PathExists(path)
       THEN /\ ret' = "False"
            /\ UNCHANGED <<removerVars, template_mask>>
       ELSE IF ImRead(path) = None
       THEN /\ original_image' = None
            /\ ret' = "False"
            /\ UNCHANGED <<image, mask, result_image, mask_history,
                           history_index, shared, template_mask>>
       ELSE LET img == ImRead(path)
                m   == Zeros(img.h, img.w)
                sv  == SaveMaskToHistory(<<>>, -1, m)
            IN  /\ original_image' = img
                /\ image' = img
                /\ mask' = m
                /\ template_mask' = Rebound(template_mask)
                /\ result_image' = None
                /\ mask_history' = sv.history
                /\ history_index' = sv.index
                /\ shared' = SharedAfterSave({}, 0)
                /\ ret' = "True"
    /\ UNCHANGED <<displayVars, tabVars>>

\* clear_mask
ClearMask ==
    /\ IF image # None
       THEN /\ mask' = Zeros(image.h, image.w)
            /\ template_mask' = Rebound(template_mask)
            /\ shared' = {}
       ELSE UNCHANGED <<mask, template_mask, shared>>
    /\ ret' = "None"
    /\ UNCHANGED <<image, original_image, result_image, mask_history,
                   history_index, displayVars, tabVars>>

\* undo_mask
UndoMask ==
    /\ IF UndoRefused(mask_history, history_index)
       THEN /\ ret' = "False"
            /\ UNCHANGED <<mask, history_index, shared, template_mask>>
       ELSE /\ history_index' = history_index - 1
            /\ mask' = Snapshot(mask_history, history_index')
            /\ shared' = SharedAfterRestore(history_index' + 1)
            /\ template_mask' = Rebound(template_mask)
            /\ ret' = "True"
    /\ UNCHANGED <<image, original_image, result_image, mask_history,
                   displayVars, tabVars>>

\* redo_mask
RedoMask ==
    /\ IF RedoRefused(mask_history, history_index)
       THEN /\ ret' = "False"
            /\ UNCHANGED <<mask, history_index, shared, template_mask>>
       ELSE /\ history_index' = history_index + 1
            /\ mask' = Snapshot(mask_history, history_index')
            /\ shared' = SharedAfterRestore(history_index' + 1)
            /\ template_mask' = Rebound(template_mask)
            /\ ret' = "True"
    /\ UNCHANGED <<image, original_image, result_image, mask_history,
                   displayVars, tabVars>>

(***************************************************************************)
(* WatermarkTab: pointer handlers.  Each sets the display size from the    *)
(* canvas before it paints.                                                *)
(***************************************************************************)
\* _start_draw without its call of set_display_size.
StartDrawStale(pt, brush_size, cs) ==
    /\ ~pressed
    /\ pressed' = TRUE
    /\ ret' = "None"
    /\ IF image = None
       THEN UNCHANGED <<mask, template_mask, drawing, last_x, last_y>>
       ELSE /\ drawing' = TRUE
            /\ last_x' = pt[1]
            /\ last_y' = pt[2]
            /\ IF mask = None
               THEN UNCHANGED <<mask, template_mask>>
               ELSE /\ mask' = StartDrawMask(mask, image, pt, brush_size,
                                             display_width, display_height,
                                             scale_factor)
                    /\ template_mask' = IF ShapeDiffers(mask, image)
                                        THEN Rebound(template_mask)
                                        ELSE template_mask
    /\ PaintedInPlace
    /\ UNCHANGED <<image, original_image, result_image, history_index,
                   displayVars>>

\* <ButtonPress-1>: _start_draw
StartDraw(pt, brush_size, cs) ==
    /\ ~pressed
    /\ pressed' = TRUE
    /\ ret' = "None"
    /\ IF image = None
       THEN UNCHANGED <<mask, template_mask, displayVars, drawing, last_x, last_y>>
       ELSE LET sc == FitScale(cs[1], cs[2], image)
            IN  /\ display_width' = cs[1]
                /\ display_height' = cs[2]
                /\ scale_factor' = sc
                /\ drawing' = TRUE
                /\ last_x' = pt[1]
                /\ last_y' = pt[2]
                /\ IF mask = None
                   THEN UNCHANGED <<mask, template_mask>>
                   ELSE /\ mask' = StartDrawMask(mask, image, pt, brush_size,
                                                 cs[1], cs[2], sc)
                        /\ template_mask' = IF ShapeDiffers(mask, image)
                                            THEN Rebound(template_mask)
                                            ELSE template_mask
    /\ PaintedInPlace
    /\ UNCHANGED <<image, original_image, result_image, history_index>>

\* <B1-Motion>: _draw.  snapshot is the draw of np.random.random() < 0.2 in
\* draw_line_on_mask.
Draw(pt, brush_size, cs, snapshot) ==
    /\ pressed
    /\ ret' = "None"
    /\ IF ~drawing \/ image = None
       THEN UNCHANGED <<mask, template_mask, mask_history, history_index,
                        shared, displayVars, last_x, last_y>>
       ELSE LET sc == FitScale(cs[1], cs[2], image)
                m  == IF mask = None THEN None
                      ELSE DrawLineMask(mask, image, <<last_x, last_y>>, pt,
                                        brush_size, cs[1], cs[2], sc)
                hist == IF mask = None \/ Replaces THEN mask_history
                        ELSE InPlace(mask_history, shared, m)
                sh == IF Replaces THEN {} ELSE shared
                sv == IF snapshot /\ mask # None
                      THEN SaveMaskToHistory(hist, history_index, m)
                      ELSE [history |-> hist, index |-> history_index]
            IN  /\ Len(sv.history) <= MaxHistory
                /\ shared' = IF snapshot /\ mask # None
                              THEN SharedAfterSave(sh, Len(sv.history) - 1)
                              ELSE sh
                /\ display_width' = cs[1]
                /\ display_height' = cs[2]
                /\ scale_factor' = sc
                /\ mask' = m
                /\ template_mask' = IF mask # None /\ ShapeDiffers(mask, image)
                                    THEN Rebound(template_mask)
                                    ELSE template_mask
                /\ mask_history' = sv.history
                /\ history_index' = sv.index
                /\ last_x' = pt[1]
                /\ last_y' = pt[2]
    /\ UNCHANGED <<image, original_image, result_image, drawing, pressed>>

\* <ButtonRelease-1>: _stop_draw
StopDraw ==
    /\ pressed
    /\ pressed' = FALSE
    /\ drawing' = FALSE
    /\ ret' = "None"
    /\ LET sv == SaveMaskToHistory(mask_history, history_index, mask)
       IN  /\ Len(sv.history) <= MaxHistory
           /\ mask_history' = sv.history
           /\ history_index' = sv.index
           /\ shared' = IF mask = None THEN shared
                         ELSE SharedAfterSave(shared, Len(sv.history) - 1)
    /\ UNCHANGED <<image, original_image, mask, result_image, template_mask,
                   displayVars, last_x, last_y>>

(***************************************************************************)
(* BatchWatermarkProcessor: pure parts of _process_single_image.           *)
(***************************************************************************)
\* cv2.resize(template_mask, (w, h), interpolation=cv2.INTER_NEAREST)
ResizeNearest(m, w, h) ==
    [h |-> h, w |-> w,
     px |-> [p \in (0..(w-1)) \X (0..(h-1)) |->
                m.px[<<Min((p[1] * m.w) \div w, m.w - 1),
                       Min((p[2] * m.h) \div h, m.h - 1)>>]]]

\* cv2.threshold(mask_resized, 127, 255, cv2.THRESH_BINARY)
Threshold(m) ==
    [m EXCEPT !.px = [p \in DOMAIN m.px |-> IF m.px[p] > 127 THEN 255 ELSE 0]]

\* cv2.inpaint(image, mask_binary, radius, algorithm): the oracle's result, an
\* image of the source's size that records what it was computed from.
Inpaint(img, mask_binary, radius, alg) ==
    [src |-> img.src, w |-> img.w, h |-> img.h,
     inpainted |-> [image |-> img, mask |-> mask_binary, radius |-> radius,
                    alg |-> alg]]

\* str.upper() on the algorithm names in use
Upper(name) ==
    CASE name \in {"TELEA", "telea"} -> "TELEA"
      [] name \in {"NS", "ns"}       -> "NS"
      [] OTHER                       -> name

\* The algorithm set_parameters stores for a name.
AlgorithmOf(name) ==
    IF Upper(name) = "TELEA" THEN "INPAINT_TELEA"
    ELSE IF Upper(name) = "NS" THEN "INPAINT_NS"
    ELSE "INPAINT_TELEA"

\* os.path.join(output_dir, f"{name}_无水印{ext}") for n = 0 and
\* os.path.join(output_dir, f"{name}_无水印_{n}{ext}") for n >= 1
OutputPath(dir, base, n) == [dir |-> dir, name |-> base.name, n |-> n, ext |-> base.ext]

\* os.path.exists(output_path)
FileExists(fs, path) == \E f \in fs : f.path = path

\* The while loop over counter: the first path that does not exist.
ChooseOutputPath(dir, base, fs) ==
    LET n == CHOOSE k \in 0..Cardinality(fs) :
                 /\ ~FileExists(fs, OutputPath(dir, base, k))
                 /\ \A j \in 0..(k-1) : FileExists(fs, OutputPath(dir, base, j))
    IN  OutputPath(dir, base, n)

\* cv2.imwrite(output_path, result, params)
WriteFile(fs, path, content) ==
    {f \in fs : f.path # path} \cup {[path |-> path, content |-> content]}

\* The array a reference to the template mask reads now.
Deref(t) == IF t.kind = "live" THEN mask
            ELSE IF t.kind = "array" THEN t.val
            ELSE None

\* executor.submit(self._process_single_image, image_path, template_mask)
NewTask(path) == [path |-> path, pc |-> "queued", img |-> None, result |-> None,
                  out |-> None, ok |-> "None", yielded |-> FALSE]

\* _process_single_image returns.
Returned(task, ok) == [task EXCEPT !.pc = "done", !.ok = ok]

\* Pool threads busy with a task.
Busy(ts) == {i \in DOMAIN ts : ts[i].pc \in {"inpaint", "name", "write"}}

\* A faulty default that forgets the upper limit of four threads.
DefaultMaxWorkersUnclamped(cpu_count) == Max(1, cpu_count)

\* __init__, line 39: max(1, min(os.cpu_count() or 2, 4)); a cpu_count of 0
\* stands for the None os.cpu_count() may return.
DefaultMaxWorkers(cpu_count) ==
    Max(1, Min(IF cpu_count = 0 THEN 2 ELSE cpu_count, 4))

(***************************************************************************)
(* BatchWatermarkProcessor: methods called from the interactive thread.    *)
(***************************************************************************)
threadVars   == <<thread_pc, total_count, tasks, completing>>
callbackVars == <<complete_calls, start_errors, progress_calls>>
counterVars  == <<processed_count, success_count, failed_paths>>

\* set_batch_images
SetBatchImages(paths) ==
    /\ image_paths' = paths
    /\ processed_count' = 0
    /\ success_count' = 0
    /\ failed_paths' = <<>>
    /\ ret' = "None"
    /\ UNCHANGED <<removerVars, displayVars, tabVars, template_mask, output_dir,
                   is_processing, should_stop, inpaint_radius, algorithm,
                   max_workers, threadVars, files, callbackVars,
                   threads_started, job>>

\* clear_batch_images
ClearBatchImages ==
    /\ image_paths' = <<>>
    /\ processed_count' = 0
    /\ success_count' = 0
    /\ failed_paths' = <<>>
    /\ ret' = "None"
    /\ UNCHANGED <<removerVars, displayVars, tabVars, template_mask, output_dir,
                   is_processing, should_stop, inpaint_radius, algorithm,
                   max_workers, threadVars, files, callbackVars,
                   threads_started, job>>

\* set_output_directory, for a directory that exists
SetOutputDirectory(dir) ==
    /\ IF ~DirWritable(dir)
       THEN ret' = "False" /\ UNCHANGED output_dir
       ELSE ret' = "True" /\ output_dir' = dir
    /\ UNCHANGED <<removerVars, displayVars, tabVars, template_mask, image_paths,
                   counterVars, is_processing, should_stop, inpaint_radius,
                   algorithm, max_workers, threadVars, files, callbackVars,
                   threads_started, job>>

\* set_parameters
SetParameters(radius, name) ==
    /\ inpaint_radius' = radius
    /\ algorithm' = AlgorithmOf(name)
    /\ ret' = "None"
    /\ UNCHANGED <<removerVars, displayVars, tabVars, template_mask, image_paths,
                   output_dir, counterVars, is_processing, should_stop,
                   max_workers, threadVars, files, callbackVars,
                   threads_started, job>>

\* reset_template: a new WatermarkRemover replaces the template remover.
ResetTemplate ==
    /\ image' = None
    /\ original_image' = None
    /\ mask' = None
    /\ result_image' = None
    /\ mask_history' = <<>>
    /\ history_index' = -1
    /\ shared' = {}
    /\ display_width' = 0
    /\ display_height' = 0
    /\ scale_factor' = <<1, 1>>
    /\ template_mask' = Rebound(template_mask)
    /\ ret' = "None"
    /\ UNCHANGED <<tabVars, batchOnlyVars>>

\* stop_processing
StopProcessing ==
    /\ should_stop' = TRUE
    /\ ret' = "None"
    /\ UNCHANGED <<removerVars, displayVars, tabVars, template_mask, image_paths,
                   output_dir, counterVars, is_processing, inpaint_radius,
                   algorithm, max_workers, threadVars, files, callbackVars,
                   threads_started, job>>

\* A faulty start_batch_processing without the check of is_processing.
StartErrorIgnoringRunning ==
    IF mask = None THEN "no watermark marked"
    ELSE IF MaskMax(mask) = 0 THEN "no watermark marked"
    ELSE IF image_paths = <<>> THEN "no image files"
    ELSE IF output_dir = "" THEN "no output directory"
    ELSE ""

\* A faulty start_batch_processing that looks at the source list first.
StartErrorSourcesFirst ==
    IF image_paths = <<>> THEN "no image files"
    ELSE IF mask = None THEN "no watermark marked"
    ELSE IF MaskMax(mask) = 0 THEN "no watermark marked"
    ELSE IF output_dir = "" THEN "no output directory"
    ELSE IF is_processing THEN "already processing"
    ELSE ""

\* The message of the first check of start_batch_processing that fails, "" when
\* none does.  The source's messages: "未标记水印区域，请先在模板图像上标记水印",
\* "未选择要处理的图像文件", "未设置输出目录", "正在处理中，请等待当前任务完成".
StartError ==
    IF mask = None THEN "no watermark marked"
    ELSE IF MaskMax(mask) = 0 THEN "no watermark marked"
    ELSE IF image_paths = <<>> THEN "no image files"
    ELSE IF output_dir = "" THEN "no output directory"
    ELSE IF is_processing THEN "already processing"
    ELSE ""

\* A faulty start_batch_processing that resets the counters but leaves
\* should_stop as stop_processing set it.
StartBatchKeepingStop ==
    /\ IF StartError # ""
       THEN /\ start_errors' = <<StartError>>
            /\ ret' = "False"
            /\ UNCHANGED <<counterVars, is_processing, should_stop, thread_pc,
                           threads_started, job>>
       ELSE /\ threads_started < MaxBatches
            /\ is_processing' = TRUE
            /\ processed_count' = 0
            /\ success_count' = 0
            /\ failed_paths' = <<>>
            /\ thread_pc' = "begin"
            /\ threads_started' = threads_started + 1
            /\ job' = [template |-> mask, sources |-> image_paths,
                       output_dir |-> output_dir, inpaint_radius |-> inpaint_radius,
                       algorithm |-> algorithm]
            /\ start_errors' = <<>>
            /\ ret' = "True"
            /\ UNCHANGED should_stop
    /\ UNCHANGED <<removerVars, displayVars, tabVars, template_mask, image_paths,
                   output_dir, inpaint_radius, algorithm, max_workers,
                   total_count, tasks, completing, files, complete_calls,
                   progress_calls>>

\* start_batch_processing
StartBatchProcessing ==
    /\ IF StartError # ""
       THEN /\ start_errors' = <<StartError>>
            /\ ret' = "False"
            /\ UNCHANGED <<counterVars, is_processing, should_stop, thread_pc,
                           threads_started, job>>
       ELSE /\ threads_started < MaxBatches
            /\ is_processing' = TRUE
            /\ should_stop' = FALSE
            /\ processed_count' = 0
            /\ success_count' = 0
            /\ failed_paths' = <<>>
            /\ thread_pc' = "begin"
            /\ threads_started' = threads_started + 1
            /\ job' = [template |-> mask, sources |-> image_paths,
                       output_dir |-> output_dir, inpaint_radius |-> inpaint_radius,
                       algorithm |-> algorithm]
            /\ start_errors' = <<>>
            /\ ret' = "True"
    /\ UNCHANGED <<removerVars, displayVars, tabVars, template_mask, image_paths,
                   output_dir, inpaint_radius, algorithm, max_workers,
                   total_count, tasks, completing, files, complete_calls,
                   progress_calls>>

(***************************************************************************)
(* _batch_process_thread, statement by statement.                          *)
(***************************************************************************)
\* lines 206-209: total_count and the reference to the template mask
ThreadBegin ==
    /\ thread_pc = "begin"
    /\ total_count' = Len(image_paths)
    /\ template_mask' = IF mask = None THEN [kind |-> "none"] ELSE [kind |-> "live"]
    /\ thread_pc' = "submit"
    /\ UNCHANGED <<editVars, image_paths, output_dir, counterVars, is_processing,
                   should_stop, inpaint_radius, algorithm, max_workers, tasks,
                   completing, files, callbackVars, threads_started, job>>

\* lines 212-220: every path is submitted to the pool
ThreadSubmit ==
    /\ thread_pc = "submit"
    /\ tasks' = [i \in 1..Len(image_paths) |-> NewTask(image_paths[i])]
    /\ thread_pc' = "collect"
    /\ UNCHANGED <<editVars, template_mask, image_paths, output_dir, counterVars,
                   is_processing, should_stop, inpaint_radius, algorithm,
                   max_workers, total_count, completing, files, callbackVars,
                   threads_started, job>>

\* lines 223-242: as_completed yields future i
ThreadCollect(i) ==
    /\ thread_pc = "collect"
    /\ tasks[i].pc = "done"
    /\ ~tasks[i].yielded
    /\ IF should_stop
       THEN /\ thread_pc' = "shutdown"
            /\ UNCHANGED <<tasks, counterVars, progress_calls>>
       ELSE /\ tasks' = [tasks EXCEPT ![i].yielded = TRUE]
            /\ IF tasks[i].ok = "True"
               THEN success_count' = success_count + 1 /\ UNCHANGED failed_paths
               ELSE failed_paths' = Append(failed_paths, tasks[i].path)
                    /\ UNCHANGED success_count
            /\ processed_count' = processed_count + 1
            /\ progress_calls' = <<processed_count + 1, total_count>>
            /\ UNCHANGED thread_pc
    /\ UNCHANGED <<editVars, template_mask, image_paths, output_dir,
                   is_processing, should_stop, inpaint_radius, algorithm,
                   max_workers, total_count, completing, files, complete_calls,
                   start_errors, threads_started, job>>

\* as_completed is exhausted: the for loop ends.
ThreadCollectEnd ==
    /\ thread_pc = "collect"
    /\ \A i \in DOMAIN tasks : tasks[i].yielded
    /\ thread_pc' = "shutdown"
    /\ UNCHANGED <<editVars, template_mask, image_paths, output_dir, counterVars,
                   is_processing, should_stop, inpaint_radius, algorithm,
                   max_workers, total_count, tasks, completing, files,
                   callbackVars, threads_started, job>>

\* The with block ends (the executor waits for every submitted task), then
\* line 245.
ThreadFinish ==
    /\ thread_pc = "shutdown"
    /\ \A i \in DOMAIN tasks : tasks[i].pc = "done"
    /\ is_processing' = FALSE
    /\ thread_pc' = "idle"
    /\ completing' = completing \cup {[batch |-> threads_started, total |-> total_count]}
    /\ UNCHANGED <<editVars, template_mask, image_paths, output_dir, counterVars,
                   should_stop, inpaint_radius, algorithm, max_workers,
                   total_count, tasks, files, callbackVars, threads_started,
                   job>>

\* lines 247-248: complete_callback(self.success_count, total_count,
\* self.failed_paths)
ThreadComplete(c) ==
    /\ c \in completing
    /\ completing' = completing \ {c}
    /\ complete_calls' = Append(complete_calls,
                                [batch |-> c.batch, success |-> success_count,
                                 total |-> c.total, failed |-> failed_paths])
    /\ UNCHANGED <<editVars, template_mask, image_paths, output_dir, counterVars,
                   is_processing, should_stop, inpaint_radius, algorithm,
                   max_workers, thread_pc, total_count, tasks, files,
                   start_errors, progress_calls, threads_started, job>>

(***************************************************************************)
(* _process_single_image on a pool thread, statement by statement.         *)
(***************************************************************************)
workerFrame == <<editVars, template_mask, image_paths, output_dir, counterVars,
                 is_processing, should_stop, inpaint_radius, algorithm,
                 max_workers, thread_pc, total_count, completing, callbackVars,
                 threads_started, job>>

\* A free pool thread takes the oldest queued task; lines 269-283 read the image.
WorkerRead(i) ==
    /\ tasks[i].pc = "queued"
    /\ \A j \in DOMAIN tasks : j < i => tasks[j].pc # "queued"
    /\ Cardinality(Busy(tasks)) < max_workers
    /\ LET img == BatchImRead(tasks[i].path)
       IN  tasks' = [tasks EXCEPT ![i] =
                        IF img = None THEN Returned(@, "False")
                        ELSE [@ EXCEPT !.pc = "inpaint", !.img = img]]
    /\ UNCHANGED <<workerFrame, files>>

\* lines 286-293: resize, binarize, inpaint
WorkerInpaint(i) ==
    /\ tasks[i].pc = "inpaint"
    /\ LET tm  == Deref(template_mask)
           img == tasks[i].img
       IN  tasks' = [tasks EXCEPT ![i] =
                        IF tm = None \/ OracleRaises(tasks[i].path)
                        THEN Returned(@, "False")
                        ELSE [@ EXCEPT !.pc = "name",
                                       !.result = Inpaint(img,
                                           Threshold(ResizeNearest(tm, img.w, img.h)),
                                           inpaint_radius, algorithm)]]
    /\ UNCHANGED <<workerFrame, files>>

\* lines 296-306: the output path
WorkerName(i) ==
    /\ tasks[i].pc = "name"
    /\ tasks' = [tasks EXCEPT ![i].pc = "write",
                              ![i].out = ChooseOutputPath(output_dir,
                                             BaseName(tasks[i].path), files)]
    /\ UNCHANGED <<workerFrame, files>>

\* lines 309-331: the result is written
WorkerWrite(i) ==
    /\ tasks[i].pc = "write"
    /\ IF WriteFails(tasks[i].path)
       THEN /\ tasks' = [tasks EXCEPT ![i] = Returned(@, "False")]
            /\ UNCHANGED files
       ELSE /\ files' = WriteFile(files, tasks[i].out, tasks[i].result)
            /\ tasks' = [tasks EXCEPT ![i] = Returned(@, "True")]
    /\ UNCHANGED workerFrame

(***************************************************************************)
(* The single-image tab: remove_watermark on its own thread, and           *)
(* continue_edit_result on the interactive thread.  A step of the removal  *)
(* thread is one read or one write of a field of the remover; the rest of  *)
(* each step works on the thread's locals.  continue_edit_result reads     *)
(* self.result_image three times (lines 430, 434, 435) and writes it once  *)
(* (line 449), so it is three steps of the interactive thread.  The other  *)
(* methods of the interactive thread are single steps: the removal thread  *)
(* writes result_image only, and a write that falls inside one of them     *)
(* leaves what a write right before or right after it leaves.  One removal *)
(* thread at a time is considered.                                         *)
(***************************************************************************)
\* self.inpaint_radius and self.algorithm of the remover as __init__ sets
\* them; the single-image tab's parameter controls are left alone.
remover_inpaint_radius == 3
remover_algorithm == "INPAINT_TELEA"

\* No removal thread.
NoRemoval == [pc |-> "idle", hw |-> None, mask_binary |-> None, result |-> None,
              ret |-> "None"]

\* remove_watermark has returned value to _process_watermark_thread: False at
\* lines 360, 380 and 399, True at line 395.
RemoveReturned(value) == [NoRemoval EXCEPT !.ret = value]

\* _remove_watermark: the button handler that starts the thread
RemoveWatermarkButton ==
    /\ ret' = "None"
    /\ IF image = None \/ MaskMax(mask) = 0
       THEN UNCHANGED <<removal, removals>>
       ELSE /\ removal.pc = "idle"
            /\ removals < MaxRemovals
            /\ removal' = [NoRemoval EXCEPT !.pc = "check"]
            /\ removals' = removals + 1
    /\ UNCHANGED <<removerVars, template_mask, displayVars, tabVars>>

\* remove_watermark, line 359: "self.image is None or self.mask is None"
RemoveCheck ==
    /\ removal.pc = "check"
    /\ removal' = IF image = None \/ mask = None THEN RemoveReturned("False")
                  ELSE [removal EXCEPT !.pc = "shape"]
    /\ UNCHANGED <<editVars, template_mask>>

\* line 369: h, w = self.original_image.shape[:2]; the AttributeError of a
\* None is caught at line 396
RemoveShape ==
    /\ removal.pc = "shape"
    /\ removal' = IF original_image = None THEN RemoveReturned("False")
                  ELSE [removal EXCEPT !.pc = "resize",
                                       !.hw = <<original_image.h, original_image.w>>]
    /\ UNCHANGED <<editVars, template_mask>>

\* lines 372-380: resize and threshold of self.mask, and the test for an
\* empty mask
RemoveResize ==
    /\ removal.pc = "resize"
    /\ removal' =
          IF mask = None THEN RemoveReturned("False")
          ELSE LET mask_binary == Threshold(ResizeNearest(mask, removal.hw[2],
                                                          removal.hw[1]))
               IN  IF MaskMax(mask_binary) = 0 THEN RemoveReturned("False")
                   ELSE [removal EXCEPT !.pc = "inpaint",
                                        !.mask_binary = mask_binary]
    /\ UNCHANGED <<editVars, template_mask>>

\* lines 383-388: cv2.inpaint is called on self.original_image as it is now;
\* cv2 raises when the mask has not the image's size
RemoveInpaint ==
    /\ removal.pc = "inpaint"
    /\ removal' =
          IF original_image = None THEN RemoveReturned("False")
          ELSE IF ShapeDiffers(removal.mask_binary, original_image)
               THEN RemoveReturned("False")
          ELSE [removal EXCEPT !.pc = "store",
                               !.result = Inpaint(original_image, removal.mask_binary,
                                                  remover_inpaint_radius,
                                                  remover_algorithm)]
    /\ UNCHANGED <<editVars, template_mask>>

\* line 383: the assignment of cv2.inpaint's result to self.result_image, and
\* the return
RemoveStore ==
    /\ removal.pc = "store"
    /\ result_image' = removal.result
    /\ removal' = RemoveReturned("True")
    /\ UNCHANGED <<image, original_image, mask, mask_history, history_index,
                   shared, displayVars, tabVars, ret, template_mask>>

\* continue_edit_result, lines 430-434: the test and the copy into self.image
ContinueEditResult ==
    /\ ui_pc = "idle"
    /\ IF result_image = None
       THEN /\ ret' = "False"
            /\ UNCHANGED <<image, ui_pc>>
       ELSE /\ image' = result_image
            /\ ui_pc' = "original"
            /\ UNCHANGED ret
    /\ UNCHANGED <<original_image, mask, result_image, mask_history,
                   history_index, shared, displayVars, tabVars, template_mask>>

\* lines 435-446: the copy into self.original_image, the zero mask and the
\* new history
ContinueEditOriginal ==
    /\ ui_pc = "original"
    /\ ui_pc' = "finish"
    /\ original_image' = result_image
    /\ LET m  == Zeros(image.h, image.w)
           sv == SaveMaskToHistory(<<>>, -1, m)
       IN  /\ mask' = m
           /\ mask_history' = sv.history
           /\ history_index' = sv.index
           /\ shared' = SharedAfterSave({}, 0)
    /\ template_mask' = Rebound(template_mask)
    /\ UNCHANGED <<image, result_image, displayVars, tabVars, ret>>

\* lines 449-455: the result is dropped and True returned
ContinueEditFinish ==
    /\ ui_pc = "finish"
    /\ ui_pc' = "idle"
    /\ result_image' = None
    /\ ret' = "True"
    /\ UNCHANGED <<image, original_image, mask, mask_history, history_index,
                   shared, displayVars, tabVars, template_mask>>

(***************************************************************************)
(* The state after construction.                                           *)
(***************************************************************************)
\* WatermarkRemover.__init__ and WatermarkTab.__init__
InitEdit ==
    /\ image = None
    /\ original_image = None
    /\ mask = None
    /\ result_image = None
    /\ mask_history = <<>>
    /\ history_index = -1
    /\ shared = {}
    /\ display_width = 0
    /\ display_height = 0
    /\ scale_factor = <<1, 1>>
    /\ drawing = FALSE
    /\ last_x = 0
    /\ last_y = 0
    /\ pressed = FALSE
    /\ ret = "None"

\* BatchWatermarkProcessor.__init__ ; no batch thread exists yet
InitBatch ==
    /\ image_paths = <<>>
    /\ output_dir = ""
    /\ processed_count = 0
    /\ success_count = 0
    /\ failed_paths = <<>>
    /\ is_processing = FALSE
    /\ should_stop = FALSE
    /\ inpaint_radius = 3
    /\ algorithm = "INPAINT_TELEA"
    /\ max_workers \in {DefaultMaxWorkers(c) : c \in CpuCounts}
    /\ thread_pc = "idle"
    /\ total_count = 0
    /\ template_mask = [kind |-> "unset"]
    /\ tasks = <<>>
    /\ completing = {}
    /\ files = {}
    /\ complete_calls = <<>>
    /\ start_errors = <<>>
    /\ progress_calls = <<>>
    /\ threads_started = 0
    /\ job = None

InitScenario ==
    /\ phase = "init"
    /\ strokes = 0
    /\ snaps = 0
    /\ undos = 0
    /\ redos = 0
    /\ final_mask = None

\* core.WatermarkRemover.__init__ ; batch_process is not running
InitCore ==
    /\ core_original_image = None
    /\ core_current_image = None
    /\ core_mask = None
    /\ core_algorithm = "ns"
    /\ core_pc = "idle"
    /\ current_mask = None
    /\ current_algorithm = "ns"
    /\ results = None
    /\ core_tasks = <<>>
    /\ core_collected = 0
    /\ core_files = {}
    /\ preview_quality = 80
    /\ detected_regions = <<>>
    /\ core_ret = None
    /\ detect_ret = <<>>
    /\ core_log = <<>>
    /\ cv2_env = [major |-> 4, raises |-> FALSE]
    /\ contours = <<>>
    /\ last_point = <<>>

\* A value of the settings that is not a dictionary.
Scalar(v) == [s |-> v]

\* A reference to the dictionary object id of settings_heap.
Ref(id) == [ref |-> id]

\* ConfigManager.__init__, lines 38-61, as JSON would print it.  theme stands
\* for the thirteen top-level settings that hold a string, a number or a
\* boolean.
DefaultSettings ==
    ("api_keys" :> [d |-> ("volcano_engine_access_key" :> Scalar("")) @@
                          ("volcano_engine_region" :> Scalar("cn-beijing"))])
    @@ ("theme" :> Scalar("light"))

\* ConfigManager.__init__ on a first run: no config.json exists, and
\* load_config returns self.default_config.copy() (line 79)
InitConfig ==
    /\ default_config = ("api_keys" :> Ref(1)) @@ ("theme" :> Scalar("light"))
    /\ config = default_config
    /\ settings_heap = <<DefaultSettings["api_keys"].d>>
    /\ config_file = None
    /\ config_ret = None

\* the canvas as the window lays it out; canvas_to_image_coords not yet called
InitView ==
    /\ canvas = <<4, 4>>
    /\ coords = None
    /\ stroke = None
    /\ InitConfig

\* no removal thread exists and the interactive thread is in no method
InitSingle ==
    /\ removal = NoRemoval
    /\ removals = 0
    /\ ui_pc = "idle"
    /\ last_call = ""

Init ==
    /\ InitEdit /\ InitSingle /\ InitBatch /\ InitScenario /\ calls = 0 /\ InitCore
    /\ InitView

(***************************************************************************)
(* SpecEdit: the mask editor under every order of its operations.          *)
(***************************************************************************)
\* A call of the interactive thread, the removal thread not running.
Edited(name) ==
    /\ last_call' = name
    /\ UNCHANGED <<removal, removals, ui_pc, batchOnlyVars, scenarioVars, calls,
                   coreVars, viewVars>>

EditLoad ==
    /\ \E path \in LoadPaths : LoadImage(path)
    /\ Edited("load_image")

EditClear == ClearMask /\ Edited("clear_mask")

EditUndo == UndoMask /\ Edited("undo_mask")

EditRedo == RedoMask /\ Edited("redo_mask")

EditStartDraw ==
    /\ \E pt \in CanvasPoints, b \in BrushSizes, cs \in CanvasSizes :
           StartDraw(pt, b, cs)
    /\ Edited("start_draw")

EditDraw ==
    /\ \E pt \in CanvasPoints, b \in BrushSizes, cs \in CanvasSizes,
           snapshot \in BOOLEAN : Draw(pt, b, cs, snapshot)
    /\ Edited("draw")

EditStopDraw == StopDraw /\ Edited("stop_draw")

EditNext ==
    \/ EditLoad
    \/ EditClear
    \/ EditUndo
    \/ EditRedo
    \/ EditStartDraw
    \/ EditDraw
    \/ EditStopDraw

SpecEdit == Init /\ [][EditNext]_vars

(***************************************************************************)
(* SpecUndo: one editing session.  An image is loaded and strokes are      *)
(* painted; then undo_mask is called some number of times; then either     *)
(* redo_mask is called, or a new stroke is painted and ended and redo_mask *)
(* and undo_mask are called after it.  strokes counts the strokes ended    *)
(* before the first undo, snaps the snapshots pushed by them, undos and    *)
(* redos the calls made, final_mask the mask before the first undo.        *)
(***************************************************************************)
sessionFrame == <<singleVars, batchOnlyVars, calls, coreVars, viewVars>>

\* Snapshots the step pushes.
Pushed == Len(mask_history') - Len(mask_history)

SessionLoad ==
    /\ phase = "init"
    /\ \E path \in LoadPaths : LoadImage(path)
    /\ phase' = IF ret' = "True" THEN "draw" ELSE "init"
    /\ UNCHANGED <<strokes, snaps, undos, redos, final_mask, sessionFrame>>

SessionStartDraw ==
    /\ phase \in {"draw", "undo"}
    /\ phase = "draw" => strokes < MaxStrokes
    /\ \E pt \in CanvasPoints, b \in BrushSizes, cs \in CanvasSizes :
           StartDraw(pt, b, cs)
    /\ phase' = IF phase = "undo" THEN "branch" ELSE phase
    /\ UNCHANGED <<strokes, snaps, undos, redos, final_mask, sessionFrame>>

SessionDraw ==
    /\ phase \in {"draw", "branch"}
    /\ \E pt \in CanvasPoints, b \in BrushSizes, cs \in CanvasSizes,
           snapshot \in BOOLEAN : Draw(pt, b, cs, snapshot)
    /\ snaps' = IF phase = "draw" THEN snaps + Pushed ELSE snaps
    /\ UNCHANGED <<phase, strokes, undos, redos, final_mask, sessionFrame>>

SessionStopDraw ==
    /\ phase \in {"draw", "branch"}
    /\ StopDraw
    /\ IF phase = "draw"
       THEN /\ strokes' = strokes + 1
            /\ snaps' = snaps + Pushed
            /\ UNCHANGED phase
       ELSE /\ phase' = "branched"
            /\ UNCHANGED <<strokes, snaps>>
    /\ UNCHANGED <<undos, redos, final_mask, sessionFrame>>

SessionUndo ==
    /\ ~pressed
    /\ \/ /\ phase \in {"draw", "undo"}
          /\ undos < snaps
          /\ UndoMask
          /\ phase' = "undo"
          /\ undos' = undos + 1
          /\ final_mask' = IF phase = "draw" THEN mask ELSE final_mask
       \/ /\ phase \in {"redone", "after"}
          /\ UndoMask
          /\ phase' = "after"
          /\ UNCHANGED <<undos, final_mask>>
    /\ UNCHANGED <<strokes, snaps, redos, sessionFrame>>

SessionRedo ==
    /\ \/ /\ phase \in {"undo", "redo"}
          /\ redos < undos
          /\ RedoMask
          /\ phase' = "redo"
          /\ redos' = redos + 1
       \/ /\ phase \in {"branched", "redone", "after"}
          /\ RedoMask
          /\ phase' = IF phase = "branched" THEN "redone" ELSE "after"
          /\ UNCHANGED redos
    /\ UNCHANGED <<strokes, snaps, undos, final_mask, sessionFrame>>

SessionNext ==
    \/ SessionLoad
    \/ SessionStartDraw
    \/ SessionDraw
    \/ SessionStopDraw
    \/ SessionUndo
    \/ SessionRedo

SpecUndo == Init /\ [][SessionNext]_vars

\* C1 as stated: after N completed strokes, N calls of undo_mask leave the
\* all-zero mask of load time, and N calls of redo_mask after them leave the
\* final mask bit for bit.
C1_StrokeCountInverse ==
    /\ (phase = "undo" /\ undos = strokes) => mask = Zeros(image.h, image.w)
    /\ (phase = "redo" /\ undos = strokes /\ redos = strokes) => mask = final_mask

\* C1 amended: with K the number of snapshots the strokes pushed (one at the
\* end of each stroke and one for each draw_line_on_mask call whose random
\* draw fell under 0.2, so K >= N), K calls of undo_mask leave the all-zero
\* mask of load time, and K calls of redo_mask after them leave the final
\* mask bit for bit.
C1_SnapshotCountInverse ==
    /\ (phase = "undo" /\ undos = snaps) => mask = Zeros(image.h, image.w)
    /\ (phase = "redo" /\ undos = snaps /\ redos = snaps) => mask = final_mask

\* A session with a snapshot pushed in mid-stroke, undone and redone in full.
C1_Witness ==
    /\ phase = "redo"
    /\ strokes >= 1
    /\ snaps > strokes
    /\ undos = snaps
    /\ redos = snaps
    /\ final_mask # Zeros(image.h, image.w)
    /\ mask = final_mask

\* C2: a snapshot pushed while the cursor is not at the end replaces every
\* snapshot after the cursor (the history becomes the snapshots up to the
\* cursor followed by the new one, with the cursor on it); undo_mask and
\* redo_mask leave the history as it is and only ever restore one of its
\* entries; so redo_mask called after undos, a new stroke and its end-of-stroke
\* snapshot returns False and leaves the mask alone.
C2_PushStep ==
    (mask_history # <<>> /\ mask_history' # mask_history)
        => /\ mask_history' = Append(SubSeq(mask_history, 1, history_index + 1), mask')
           /\ history_index' = Len(mask_history') - 1

C2_UndoRedoStep ==
    (SessionUndo \/ SessionRedo)
        => /\ mask_history' = mask_history
           /\ mask' = mask_history[history_index' + 1]

C2_HistoryTruncation ==
    /\ [][C2_PushStep /\ C2_UndoRedoStep]_vars
    /\ [](phase = "redone" => /\ ret = "False"
                              /\ history_index = Len(mask_history) - 1
                              /\ mask = mask_history[Len(mask_history)])

\* redo_mask has been called after two undos, a new stroke and its snapshot.
C2_Witness ==
    /\ phase = "redone"
    /\ undos = 2
    /\ snaps = 2
    /\ Len(mask_history) = 2
    /\ ret = "False"

(***************************************************************************)
(* The batch tab: the template remover's methods, the processor's methods  *)
(* and the steps of the batch thread and of its pool, in every order.      *)
(***************************************************************************)
\* One more call of the user on the batch tab.
Called == calls < MaxCalls /\ calls' = calls + 1 /\ UNCHANGED <<singleVars, scenarioVars, coreVars, viewVars>>

\* A step of the batch thread or of a pool thread.
Stepped == UNCHANGED <<singleVars, scenarioVars, calls, coreVars, viewVars>>

TemplateLoad == (\E path \in LoadPaths : LoadImage(path)) /\ UNCHANGED batchOnlyVars /\ Called
TemplateClear == ClearMask /\ UNCHANGED batchOnlyVars /\ Called
TemplateUndo == UndoMask /\ UNCHANGED batchOnlyVars /\ Called
TemplateRedo == RedoMask /\ UNCHANGED batchOnlyVars /\ Called
TemplateStartDraw ==
    /\ \E pt \in CanvasPoints, b \in BrushSizes, cs \in CanvasSizes :
           StartDraw(pt, b, cs)
    /\ UNCHANGED batchOnlyVars
    /\ Called
TemplateDraw ==
    /\ \E pt \in CanvasPoints, b \in BrushSizes, cs \in CanvasSizes,
           snapshot \in BOOLEAN : Draw(pt, b, cs, snapshot)
    /\ UNCHANGED batchOnlyVars
    /\ Called
TemplateStopDraw == StopDraw /\ UNCHANGED batchOnlyVars /\ Called
BatchSetImages == (\E paths \in BatchLists : SetBatchImages(paths)) /\ Called
BatchClearImages == ClearBatchImages /\ Called
BatchSetOutputDirectory == (\E dir \in OutputDirs : SetOutputDirectory(dir)) /\ Called
BatchSetParameters == (\E pc \in ParameterChoices : SetParameters(pc[1], pc[2])) /\ Called
BatchResetTemplate == ResetTemplate /\ Called
BatchStart == StartBatchProcessing /\ Called
BatchStop == StopProcessing /\ Called
BatchThreadBegin == ThreadBegin /\ Stepped
BatchThreadSubmit == ThreadSubmit /\ Stepped
BatchThreadCollect == (\E i \in DOMAIN tasks : ThreadCollect(i)) /\ Stepped
BatchThreadCollectEnd == ThreadCollectEnd /\ Stepped
BatchThreadFinish == ThreadFinish /\ Stepped
BatchThreadComplete == (\E c \in completing : ThreadComplete(c)) /\ Stepped
BatchWorkerRead == (\E i \in DOMAIN tasks : WorkerRead(i)) /\ Stepped
BatchWorkerInpaint == (\E i \in DOMAIN tasks : WorkerInpaint(i)) /\ Stepped
BatchWorkerName == (\E i \in DOMAIN tasks : WorkerName(i)) /\ Stepped
BatchWorkerWrite == (\E i \in DOMAIN tasks : WorkerWrite(i)) /\ Stepped

BatchNext ==
    \/ TemplateLoad
    \/ TemplateClear
    \/ TemplateUndo
    \/ TemplateRedo
    \/ TemplateStartDraw
    \/ TemplateDraw
    \/ TemplateStopDraw
    \/ BatchSetImages
    \/ BatchClearImages
    \/ BatchSetOutputDirectory
    \/ BatchSetParameters
    \/ BatchResetTemplate
    \/ BatchStart
    \/ BatchStop
    \/ BatchThreadBegin
    \/ BatchThreadSubmit
    \/ BatchThreadCollect
    \/ BatchThreadCollectEnd
    \/ BatchThreadFinish
    \/ BatchThreadComplete
    \/ BatchWorkerRead
    \/ BatchWorkerInpaint
    \/ BatchWorkerName
    \/ BatchWorkerWrite

\* The template remover after the user has loaded tpl.png and painted one
\* stroke at the canvas origin: load_image, <ButtonPress-1>, <ButtonRelease-1>.
TemplateMarked ==
    LET img == ImRead("tpl.png")
        cs  == <<4, 4>>
        sc  == FitScale(cs[1], cs[2], img)
        m0  == Zeros(img.h, img.w)
        m1  == StartDrawMask(m0, img, <<0, 0>>, 2, cs[1], cs[2], sc)
    IN  /\ image = img
        /\ original_image = img
        /\ mask = m1
        /\ result_image = None
        /\ mask_history = <<m0, m1>>
        /\ history_index = 1
        /\ shared = {}
        /\ display_width = cs[1]
        /\ display_height = cs[2]
        /\ scale_factor = sc
        /\ drawing = FALSE
        /\ last_x = 0
        /\ last_y = 0
        /\ pressed = FALSE
        /\ ret = "None"

\* The batch tab is opened on a new template remover or on a marked one.
InitBatchTab ==
    /\ InitEdit \/ TemplateMarked
    /\ InitSingle
    /\ InitBatch
    /\ InitScenario
    /\ InitView
    /\ calls = 0
    /\ InitCore

SpecBatch == InitBatchTab /\ [][BatchNext]_vars
(***************************************************************************)
(* Properties of the batch processor, checked under SpecBatch.             *)
(***************************************************************************)
\* A source no run of _process_single_image can turn into an output file.
Unprocessable(path) ==
    BatchImRead(path) = None \/ OracleRaises(path) \/ WriteFails(path)

\* The elements of a sequence.
Range(seq) == {seq[i] : i \in DOMAIN seq}

\* C3: when the complete callback of an unstopped batch of T sources has been
\* called, every one of the T sources has been attempted and the callback
\* received success_count and failed_paths with success_count +
\* len(failed_paths) = T, failed_paths holding exactly the sources that cannot
\* be processed.
C3_BatchInvariants ==
    (threads_started = 1 /\ Len(complete_calls) = 1 /\ ~should_stop) =>
        LET c   == complete_calls[1]
            T   == Len(job.sources)
            bad == {i \in 1..T : Unprocessable(job.sources[i])}
        IN  /\ [i \in DOMAIN tasks |-> tasks[i].path] = job.sources
            /\ \A i \in DOMAIN tasks : tasks[i].pc = "done"
            /\ c.total = T
            /\ c.success + Len(c.failed) = T
            /\ Len(c.failed) = Cardinality(bad)
            /\ Range(c.failed) = {job.sources[i] : i \in bad}

\* Every batch thread started is running, is between line 245 and its complete
\* callback, or has made its complete callback; none has made two.
C4_CalledOncePerBatch ==
    /\ threads_started = Len(complete_calls) + Cardinality(completing)
                             + (IF thread_pc = "idle" THEN 0 ELSE 1)
    /\ \A m, n \in DOMAIN complete_calls :
           complete_calls[m].batch = complete_calls[n].batch => m = n
    /\ \A c \in completing : \A n \in DOMAIN complete_calls :
           complete_calls[n].batch # c.batch

\* C4: complete_callback is called exactly once for every batch started, stopped
\* or not, and the counts it receives satisfy success_count +
\* len(failed_paths) <= total.
C4_CompleteCallback ==
    /\ C4_CalledOncePerBatch
    /\ \A n \in DOMAIN complete_calls :
           complete_calls[n].success + Len(complete_calls[n].failed)
               <= complete_calls[n].total

\* C5: while a batch is running with the stop flag set, no source whose
\* processing has not begun is taken up by a pool thread.
C5_NoDispatchAfterStop ==
    [][(is_processing /\ should_stop) =>
           \A i \in DOMAIN tasks :
               (tasks[i].pc = "queued" /\ i \in DOMAIN tasks')
                   => tasks'[i].pc = "queued"]_vars

\* C6: a batch thread runs only while is_processing is set, and
\* start_batch_processing called while is_processing is set returns False,
\* reports one error, starts no thread and leaves the counters, the failure
\* list, the stop flag and the futures of the running batch as they are.
C6_StartWhileRunning ==
    (BatchStart /\ is_processing)
        => /\ ret' = "False"
           /\ Len(start_errors') = 1
           /\ UNCHANGED <<threads_started, thread_pc, tasks, total_count,
                          processed_count, success_count, failed_paths,
                          is_processing, should_stop, job>>

C7_Refused(message) ==
    /\ ret' = "False"
    /\ start_errors' = <<message>>
    /\ UNCHANGED <<threads_started, thread_pc, tasks, is_processing, should_stop,
                   processed_count, success_count, failed_paths>>

C7_StartStep ==
    BatchStart =>
        IF mask = None \/ MaskMax(mask) = 0 THEN C7_Refused("no watermark marked")
        ELSE IF image_paths = <<>> THEN C7_Refused("no image files")
        ELSE IF output_dir = "" \/ ~DirWritable(output_dir)
        THEN C7_Refused("no output directory")
        ELSE ret' = "True" => (output_dir # "" /\ DirWritable(output_dir))

C8_TemplateSnapshot ==
    threads_started = 1 =>
        \A i \in DOMAIN tasks :
            tasks[i].result # None =>
                tasks[i].result.inpainted.mask =
                    Threshold(ResizeNearest(job.template, tasks[i].img.w, tasks[i].img.h))

\* C10: two items of a batch that both succeeded were written to two distinct
\* paths, each the first free one of its name when it was chosen.
C10_DistinctOutputs ==
    \A i, j \in DOMAIN tasks :
        (i # j /\ tasks[i].ok = "True" /\ tasks[j].ok = "True")
            => /\ tasks[i].out # tasks[j].out
               /\ FileExists(files, tasks[i].out)
               /\ FileExists(files, tasks[j].out)
(***************************************************************************)
(* core.WatermarkRemover and its batch_process.  The masks it holds here   *)
(* are uniform (all 0 or all 255: the brush covers the whole of the small  *)
(* images considered), for which resampling is exact.                      *)
(***************************************************************************)
\* Image.open(path), made RGB
ImageOpen(path) == IF ImRead(path) # None THEN ImRead(path) ELSE BatchImRead(path)

\* mask.resize((w, h), Image.LANCZOS) of a uniform mask
Resample(m, w, h) ==
    [h |-> h, w |-> w, px |-> [p \in (0..(w-1)) \X (0..(h-1)) |-> m.px[<<0, 0>>]]]

\* inpaint_image(img, mask, method); None when cv2.inpaint raises because the
\* mask has not the size of the image.
CoreInpaint(img, m, method) ==
    IF ShapeDiffers(m, img) THEN None
    ELSE [src |-> img.src, w |-> img.w, h |-> img.h,
          inpainted |-> [mask |-> Threshold(m), radius |-> 3,
                         alg |-> IF method = "telea" THEN "INPAINT_TELEA"
                                 ELSE "INPAINT_NS"]]

\* os.path.join(output_dir, f"{name_without_ext}.{out_format}")
CoreOutputPath(dir, path) ==
    [dir |-> dir, name |-> BaseName(path).name, ext |-> BaseName(path).ext]

\* executor.submit(process_image, path)
CoreNewTask(path) == [path |-> path, pc |-> "queued", img |-> None,
                      resized |-> None, result |-> None, ok |-> ""]

\* Pool threads busy with a task.
CoreBusy(ts) == {i \in DOMAIN ts : ts[i].pc \notin {"queued", "done"}}

otherTabs == <<editVars, singleVars, batchVars, scenarioVars, calls, viewVars>>
coreFrame == <<otherTabs, toolVars>>
\* what load_image and the stroke methods leave alone besides
coreKept == <<otherTabs, preview_quality, core_ret, detect_ret, core_log,
              cv2_env, contours>>

\* load_image(path)
CoreLoadImage(path) ==
    /\ core_pc = "idle"
    /\ IF ~PathExists(path) \/ ImageOpen(path) = None
       THEN UNCHANGED <<core_original_image, core_current_image, core_mask,
                        last_point, detected_regions>>
       ELSE LET img == ImageOpen(path)
            IN  /\ core_original_image' = img
                /\ core_current_image' = img
                /\ core_mask' = Zeros(img.h, img.w)
                /\ last_point' = <<>>
                /\ detected_regions' = <<>>
    /\ UNCHANGED <<core_algorithm, core_pc, current_mask, current_algorithm,
                   results, core_tasks, core_collected, core_files, coreKept>>

\* draw(x, y) called with self.last_point being from: the mask and the
\* last_point it leaves
CoreDrawn(m, img, from, pt) ==
    IF m = None \/ img = None THEN [mask |-> m, last_point |-> from]
    ELSE IF ~InMask(m, pt) THEN [mask |-> m, last_point |-> from]
    ELSE LET dot == Circle(m, pt, core_brush_size)
         IN  [mask |-> IF from # <<>> /\ from # <<pt>>
                       THEN Line(dot, from[1], pt, 2 * core_brush_size)
                       ELSE dot,
              last_point |-> <<pt>>]

\* start_draw(x, y): the first point of a stroke
CoreStartDraw(pt) ==
    /\ core_pc = "idle"
    /\ LET drawn == CoreDrawn(core_mask, core_original_image, <<pt>>, pt)
       IN  /\ core_mask' = drawn.mask
           /\ last_point' = drawn.last_point
    /\ UNCHANGED <<core_original_image, core_current_image, core_algorithm,
                   core_pc, current_mask, current_algorithm, results,
                   core_tasks, core_collected, core_files, detected_regions,
                   coreKept>>

\* draw(x, y)
CoreDraw(pt) ==
    /\ core_pc = "idle"
    /\ LET drawn == CoreDrawn(core_mask, core_original_image, last_point, pt)
       IN  /\ core_mask' = drawn.mask
           /\ last_point' = drawn.last_point
    /\ UNCHANGED <<core_original_image, core_current_image, core_algorithm,
                   core_pc, current_mask, current_algorithm, results,
                   core_tasks, core_collected, core_files, detected_regions,
                   coreKept>>

\* end_draw()
CoreEndDraw ==
    /\ core_pc = "idle"
    /\ last_point' = <<>>
    /\ UNCHANGED <<core_original_image, core_current_image, core_mask,
                   core_algorithm, core_pc, current_mask, current_algorithm,
                   results, core_tasks, core_collected, core_files,
                   detected_regions, coreKept>>

\* set_algorithm(code)
CoreSetAlgorithm(code) ==
    /\ core_pc = "idle"
    /\ IF code \in {"basic", "ns", "telea", "patchmatch", "auto"}
       THEN core_algorithm' = code
       ELSE UNCHANGED core_algorithm
    /\ UNCHANGED <<core_original_image, core_current_image, core_mask, core_pc,
                   current_mask, current_algorithm, results, core_tasks,
                   core_collected, core_files, coreFrame>>

\* batch_process(image_paths, "out"), up to the submission of every path
CoreBatchProcess(paths) ==
    /\ core_pc = "idle"
    /\ core_pc' = "pool"
    /\ results' = [total |-> Len(paths), success |-> 0, fail |-> 0,
                   skipped |-> 0, failed_files |-> <<>>]
    /\ current_mask' = core_mask
    /\ current_algorithm' = core_algorithm
    /\ core_tasks' = [i \in 1..Len(paths) |-> CoreNewTask(paths[i])]
    /\ core_collected' = 0
    /\ UNCHANGED <<core_original_image, core_current_image, core_mask,
                   core_algorithm, core_files, coreFrame>>

\* process_image: a free pool thread takes the oldest queued path, opens it and
\* resizes the mask (lines 703-711)
CoreOpen(i) ==
    /\ core_pc = "pool"
    /\ core_tasks[i].pc = "queued"
    /\ \A j \in DOMAIN core_tasks : j < i => core_tasks[j].pc # "queued"
    /\ Cardinality(CoreBusy(core_tasks)) < core_max_workers
    /\ LET img == ImageOpen(core_tasks[i].path)
       IN  core_tasks' = [core_tasks EXCEPT ![i] =
               IF img = None THEN [@ EXCEPT !.pc = "done", !.ok = "False"]
               ELSE IF current_mask = None THEN [@ EXCEPT !.pc = "done", !.ok = "None"]
               ELSE [@ EXCEPT !.pc = "set_image", !.img = img,
                              !.resized = Resample(current_mask, img.w, img.h)]]
    /\ UNCHANGED <<core_original_image, core_current_image, core_mask,
                   core_algorithm, core_pc, current_mask, current_algorithm,
                   results, core_collected, core_files, coreFrame>>

\* line 714: self.original_image = img
CoreSetImage(i) ==
    /\ core_tasks[i].pc = "set_image"
    /\ core_original_image' = core_tasks[i].img
    /\ core_tasks' = [core_tasks EXCEPT ![i].pc = "set_mask"]
    /\ UNCHANGED <<core_current_image, core_mask, core_algorithm, core_pc,
                   current_mask, current_algorithm, results, core_collected,
                   core_files, coreFrame>>

\* line 715: self.mask = resized_mask
CoreSetMask(i) ==
    /\ core_tasks[i].pc = "set_mask"
    /\ core_mask' = core_tasks[i].resized
    /\ core_tasks' = [core_tasks EXCEPT ![i].pc = "set_algorithm"]
    /\ UNCHANGED <<core_original_image, core_current_image, core_algorithm,
                   core_pc, current_mask, current_algorithm, results,
                   core_collected, core_files, coreFrame>>

\* line 716: self.algorithm = current_algorithm
CoreSetTaskAlgorithm(i) ==
    /\ core_tasks[i].pc = "set_algorithm"
    /\ core_algorithm' = current_algorithm
    /\ core_tasks' = [core_tasks EXCEPT ![i].pc = "check"]
    /\ UNCHANGED <<core_original_image, core_current_image, core_mask, core_pc,
                   current_mask, current_algorithm, results, core_collected,
                   core_files, coreFrame>>

\* remove_watermark, lines 362-368: the tests of self.original_image and
\* self.mask
CoreCheck(i) ==
    /\ core_tasks[i].pc = "check"
    /\ core_tasks' = [core_tasks EXCEPT ![i] =
           IF core_original_image = None \/ core_mask = None
           THEN [@ EXCEPT !.pc = "done", !.ok = "False"]
           ELSE IF MaskMax(core_mask) = 0
           THEN [@ EXCEPT !.pc = "save", !.result = core_original_image]
           ELSE [@ EXCEPT !.pc = "run"]]
    /\ UNCHANGED <<core_original_image, core_current_image, core_mask,
                   core_algorithm, core_pc, current_mask, current_algorithm,
                   results, core_collected, core_files, coreFrame>>

\* remove_watermark, lines 370-393: the algorithm chosen by self.algorithm runs
\* on self.original_image and self.mask
CoreRun(i) ==
    /\ core_tasks[i].pc = "run"
    /\ LET result == CoreInpaint(core_original_image, core_mask, core_algorithm)
       IN  IF result = None
           THEN /\ core_tasks' = [core_tasks EXCEPT ![i].pc = "done", ![i].ok = "False"]
                /\ UNCHANGED core_current_image
           ELSE /\ core_tasks' = [core_tasks EXCEPT ![i].pc = "save", ![i].result = result]
                /\ core_current_image' = result
    /\ UNCHANGED <<core_original_image, core_mask, core_algorithm, core_pc,
                   current_mask, current_algorithm, results, core_collected,
                   core_files, coreFrame>>

\* lines 720-735: result.save(output_path)
CoreSave(i) ==
    /\ core_tasks[i].pc = "save"
    /\ core_files' = WriteFile(core_files, CoreOutputPath("out", core_tasks[i].path),
                               core_tasks[i].result)
    /\ core_tasks' = [core_tasks EXCEPT ![i].pc = "done", ![i].ok = "True"]
    /\ UNCHANGED <<core_original_image, core_current_image, core_mask,
                   core_algorithm, core_pc, current_mask, current_algorithm,
                   results, core_collected, coreFrame>>

\* lines 752-767: future.result() of the next future, in submission order
CoreCollect ==
    /\ core_pc = "pool"
    /\ core_collected < Len(core_tasks)
    /\ LET t == core_tasks[core_collected + 1]
       IN  /\ t.pc = "done"
           /\ results' =
                  IF t.ok = "True" THEN [results EXCEPT !.success = @ + 1]
                  ELSE IF t.ok = "False"
                  THEN [results EXCEPT !.fail = @ + 1,
                                       !.failed_files = Append(@, t.path)]
                  ELSE [results EXCEPT !.skipped = @ + 1]
    /\ core_collected' = core_collected + 1
    /\ UNCHANGED <<core_original_image, core_current_image, core_mask,
                   core_algorithm, core_pc, current_mask, current_algorithm,
                   core_tasks, core_files, coreFrame>>

\* lines 769-776: the pool is shut down, mask and algorithm are restored and
\* results is returned
CoreReturn ==
    /\ core_pc = "pool"
    /\ core_collected = Len(core_tasks)
    /\ core_mask' = current_mask
    /\ core_algorithm' = current_algorithm
    /\ core_pc' = "idle"
    /\ UNCHANGED <<core_original_image, core_current_image, current_mask,
                   current_algorithm, results, core_tasks, core_collected,
                   core_files, coreFrame>>

CoreLoad == \E path \in CoreLoadPaths : CoreLoadImage(path)
CoreMark == \E pt \in {<<0, 0>>, <<5, 5>>} : CoreStartDraw(pt)
CoreAlgorithm == \E code \in CoreAlgorithms : CoreSetAlgorithm(code)
CoreBatch == \E paths \in CoreLists : CoreBatchProcess(paths)
CoreWorkerOpen == \E i \in DOMAIN core_tasks : CoreOpen(i)
CoreWorkerSetImage == \E i \in DOMAIN core_tasks : CoreSetImage(i)
CoreWorkerSetMask == \E i \in DOMAIN core_tasks : CoreSetMask(i)
CoreWorkerSetAlgorithm == \E i \in DOMAIN core_tasks : CoreSetTaskAlgorithm(i)
CoreWorkerCheck == \E i \in DOMAIN core_tasks : CoreCheck(i)
CoreWorkerRun == \E i \in DOMAIN core_tasks : CoreRun(i)
CoreWorkerSave == \E i \in DOMAIN core_tasks : CoreSave(i)

CoreNext ==
    \/ CoreLoad
    \/ CoreMark
    \/ CoreAlgorithm
    \/ CoreBatch
    \/ CoreWorkerOpen
    \/ CoreWorkerSetImage
    \/ CoreWorkerSetMask
    \/ CoreWorkerSetAlgorithm
    \/ CoreWorkerCheck
    \/ CoreWorkerRun
    \/ CoreWorkerSave
    \/ CoreCollect
    \/ CoreReturn

SpecCore == Init /\ [][CoreNext]_vars

\* What process_image makes of a path on its own.
OwnResult(path) ==
    LET img == ImageOpen(path)
    IN  IF MaskMax(current_mask) = 0 THEN img
        ELSE CoreInpaint(img, Resample(current_mask, img.w, img.h), current_algorithm)

\* C9: every batch item is inpainted from its own source image with the mask of
\* the call resized to that image, by the algorithm of the call, and an item
\* whose source can be opened does not fail: no item's outcome depends on what
\* another item wrote.
C9_ItemsIndependent ==
    \A i \in DOMAIN core_tasks :
        LET t == core_tasks[i]
        IN  /\ t.result # None => t.result = OwnResult(t.path)
            /\ (t.pc = "done" /\ ImageOpen(t.path) # None /\ current_mask # None)
                   => t.ok = "True"

(***************************************************************************)
(* SpecSingle: the single-image tab with its removal thread.  The user     *)
(* does not wait for a removal to end: every method of the interactive     *)
(* thread can be called between two steps of the removal thread.  The tab  *)
(* starts empty or with tpl.png loaded and marked.                         *)
(***************************************************************************)
\* One more call of the user on the single-image tab, run from call to
\* return in one step.
Single(name) ==
    /\ ui_pc = "idle"
    /\ calls < MaxCalls
    /\ calls' = calls + 1
    /\ last_call' = name
    /\ UNCHANGED <<removal, removals, ui_pc, batchOnlyVars, scenarioVars, coreVars, viewVars>>

\* A step of the removal thread, or a later step of continue_edit_result.
Background(unchanged) ==
    UNCHANGED <<unchanged, removals, last_call, batchOnlyVars, scenarioVars,
                calls, coreVars, viewVars>>

SingleRemove ==
    /\ ui_pc = "idle"
    /\ calls < MaxCalls
    /\ calls' = calls + 1
    /\ last_call' = "remove_watermark"
    /\ RemoveWatermarkButton
    /\ UNCHANGED <<ui_pc, batchOnlyVars, scenarioVars, coreVars, viewVars>>

SingleContinue ==
    /\ calls < MaxCalls
    /\ calls' = calls + 1
    /\ last_call' = "continue_edit_result"
    /\ ContinueEditResult
    /\ UNCHANGED <<removal, removals, batchOnlyVars, scenarioVars, coreVars, viewVars>>

SingleNext ==
    \/ (\E path \in LoadPaths : LoadImage(path)) /\ Single("load_image")
    \/ ClearMask /\ Single("clear_mask")
    \/ UndoMask /\ Single("undo_mask")
    \/ RedoMask /\ Single("redo_mask")
    \/ (\E pt \in CanvasPoints, b \in BrushSizes, cs \in CanvasSizes :
            StartDraw(pt, b, cs)) /\ Single("start_draw")
    \/ (\E pt \in CanvasPoints, b \in BrushSizes, cs \in CanvasSizes,
           snapshot \in BOOLEAN : Draw(pt, b, cs, snapshot)) /\ Single("draw")
    \/ StopDraw /\ Single("stop_draw")
    \/ SingleRemove
    \/ SingleContinue
    \/ ContinueEditOriginal /\ Background(removal)
    \/ ContinueEditFinish /\ Background(removal)
    \/ RemoveCheck /\ Background(ui_pc)
    \/ RemoveShape /\ Background(ui_pc)
    \/ RemoveResize /\ Background(ui_pc)
    \/ RemoveInpaint /\ Background(ui_pc)
    \/ RemoveStore /\ Background(ui_pc)

InitSingleTab ==
    /\ InitEdit \/ TemplateMarked
    /\ InitSingle
    /\ InitBatch
    /\ InitScenario
    /\ InitView
    /\ calls = 0
    /\ InitCore

SpecSingle == InitSingleTab /\ [][SingleNext]_vars

(***************************************************************************)
(* Properties of the single-image tab.                                     *)
(***************************************************************************)
\* m is the all-zero mask of img's size.
BlankFor(m, img) ==
    /\ m.h = img.h
    /\ m.w = img.w
    /\ DOMAIN m.px = (0..(img.w - 1)) \X (0..(img.h - 1))
    /\ \A p \in DOMAIN m.px : m.px[p] = 0

\* C11: whenever the interactive thread is between two calls, under every
\* interleaving with the removal thread, a result image that is present is
\* the inpainting of the current original image, and the mask has the
\* dimensions of the current image.
C11_AtomicSwap ==
    ui_pc = "idle" =>
        /\ (result_image # None /\ original_image # None)
               => result_image.inpainted.image = original_image
        /\ (image # None /\ mask # None) => ~ShapeDiffers(mask, image)

\* C12: continue_edit_result called with no result returns False and changes
\* nothing; called with a result it makes that result the active image and
\* the original image, leaves the all-zero mask of that image's size, a
\* history of exactly that one snapshot with the cursor on it, and no result.
C12_ContinueStep ==
    /\ (ui_pc = "idle" /\ calls' # calls /\ last_call' = "continue_edit_result"
            /\ result_image = None)
           => ret' = "False" /\ UNCHANGED <<removerVars, ui_pc>>
    /\ (ui_pc = "idle" /\ ui_pc' = "original") => image' = result_image
    /\ (ui_pc = "finish" /\ ui_pc' = "idle")
           => /\ ret' = "True"
              /\ original_image' = image'
              /\ BlankFor(mask', image')
              /\ mask_history' = <<mask'>>
              /\ history_index' = 0
              /\ result_image' = None

C12_ContinueEditResult == [][C12_ContinueStep]_vars

\* C13: in every reachable state -1 <= history_index <= len(mask_history) - 1,
\* and once a load_image or a continue_edit_result has succeeded the history
\* is not empty and the cursor is not negative, whatever follows.
C13_CursorInvariant ==
    /\ -1 <= history_index
    /\ history_index <= Len(mask_history) - 1
    /\ image # None => mask_history # <<>> /\ 0 <= history_index

\* undo_mask has been refused on an image that continue_edit_result made the
\* active one.
C13_Witness ==
    /\ image # None
    /\ "inpainted" \in DOMAIN image
    /\ last_call = "undo_mask"
    /\ ret = "False"
    /\ history_index = 0
    /\ Len(mask_history) = 1

\* C14: undo_mask called with the cursor at 0 or below (or an empty history)
\* and redo_mask called with the cursor on the last snapshot return False and
\* leave the mask, the history and the cursor as they were.
C14_BoundaryStep ==
    /\ (EditUndo /\ (mask_history = <<>> \/ history_index <= 0))
           => ret' = "False" /\ UNCHANGED <<mask, mask_history, history_index>>
    /\ (EditRedo /\ history_index >= Len(mask_history) - 1)
           => ret' = "False" /\ UNCHANGED <<mask, mask_history, history_index>>

C14_BoundaryNoOp == [][C14_BoundaryStep]_vars

\* undo_mask has been refused at the load-time snapshot with later snapshots
\* in the history and marks on the mask.
C14_Witness ==
    /\ last_call = "undo_mask"
    /\ ret = "False"
    /\ history_index = 0
    /\ Len(mask_history) >= 2
    /\ MaskMax(mask) = 255

\* C15: an undo_mask that returns True moves the cursor back by exactly one
\* and a redo_mask that returns True forward by exactly one; the mask is then
\* the snapshot at the new cursor and the history is the one before the call.
C15_MoveStep ==
    /\ (EditUndo /\ ret' = "True") => history_index' = history_index - 1
    /\ (EditRedo /\ ret' = "True") => history_index' = history_index + 1
    /\ ((EditUndo \/ EditRedo) /\ ret' = "True")
           => /\ mask_history' = mask_history
              /\ 0 <= history_index' /\ history_index' < Len(mask_history)
              /\ mask' = mask_history[history_index' + 1]

C15_CursorMovesByOne == [][C15_MoveStep]_vars

\* redo_mask has moved the cursor to the middle of three different snapshots.
C15_Witness ==
    /\ last_call = "redo_mask"
    /\ ret = "True"
    /\ Len(mask_history) = 3
    /\ history_index = 1
    /\ mask = mask_history[2]
    /\ mask_history[2] # mask_history[1]
    /\ mask_history[2] # mask_history[3]

\* C16: a load_image that returns True leaves, whatever the state before,
\* the all-zero mask of the new image's size, a history of exactly that one
\* snapshot with the cursor on it, and no result image.
C16_LoadStep ==
    (ui_pc = "idle" /\ calls' # calls /\ last_call' = "load_image" /\ ret' = "True")
        => /\ image' # None
           /\ original_image' = image'
           /\ BlankFor(mask', image')
           /\ mask_history' = <<mask'>>
           /\ history_index' = 0
           /\ result_image' = None

C17_StrokeEndStep ==
    (EditStopDraw /\ image # None)
        => /\ mask' = mask
           /\ Len(mask_history') = history_index + 2
           /\ SubSeq(mask_history', 1, history_index + 1)
                  = SubSeq(mask_history, 1, history_index + 1)
           /\ history_index' = Len(mask_history') - 1
           /\ mask_history'[Len(mask_history')] = mask'

C17_SnapshotPerStroke == [][C17_StrokeEndStep]_vars

\* A second stroke has been ended on a marked mask.
C17_Witness ==
    /\ last_call = "stop_draw"
    /\ image # None
    /\ ~pressed
    /\ Len(mask_history) = 3
    /\ history_index = 2
    /\ MaskMax(mask) = 255
    /\ mask_history[3] = mask

\* C18: clear_mask leaves the all-zero mask of the image's size and leaves
\* mask_history and history_index as they were; with no image loaded it
\* changes nothing.
C18_ClearStep ==
    EditClear
        => /\ UNCHANGED <<image, original_image, result_image, mask_history,
                          history_index>>
           /\ image # None => BlankFor(mask', image)
           /\ image = None => mask' = mask

C18_ClearKeepsHistory == [][C18_ClearStep]_vars

\* The mask has been cleared while the snapshot at the cursor holds marks.
C18_Witness ==
    /\ last_call = "clear_mask"
    /\ image # None
    /\ MaskMax(mask) = 0
    /\ Len(mask_history) >= 2
    /\ history_index >= 1
    /\ MaskMax(mask_history[history_index + 1]) = 255

(***************************************************************************)
(* The counters and the configuration of a running batch.                  *)
(***************************************************************************)
\* C19: while a batch is running, no step, whichever thread takes it, lowers
\* success_count, processed_count or len(failed_paths), and processed_count
\* stays within the number of source paths the batch was started with.
C19_CounterStep ==
    is_processing
        => /\ success_count' >= success_count
           /\ processed_count' >= processed_count
           /\ Len(failed_paths') >= Len(failed_paths)
           /\ processed_count' <= Len(job.sources)

C19_CountersMonotonic == [][C19_CounterStep]_vars

\* C20: the batch thread and its pool use the source list, the total, the
\* output directory and the radius and algorithm the processor held when
\* start_batch_processing returned True, whatever is set meanwhile.
C20_JobFrozen ==
    threads_started = 1 =>
        /\ thread_pc \in {"submit", "collect", "shutdown"}
               => total_count = Len(job.sources)
        /\ thread_pc \in {"collect", "shutdown"}
               => [i \in DOMAIN tasks |-> tasks[i].path] = job.sources
        /\ \A i \in DOMAIN tasks :
               /\ tasks[i].result # None
                      => /\ tasks[i].result.inpainted.radius = job.inpaint_radius
                         /\ tasks[i].result.inpainted.alg = job.algorithm
               /\ tasks[i].out # None => tasks[i].out.dir = job.output_dir

(***************************************************************************)
(* A new batch starts from zero.                                           *)
(***************************************************************************)
\* Futures of the running batch that as_completed has handed to the loop.
C21_Yielded == {i \in DOMAIN tasks : tasks[i].yielded}

\* C21: the step in which start_batch_processing returns True leaves
\* processed_count = 0, success_count = 0, failed_paths empty and should_stop
\* false while no item is in a pool thread; the counters are still zero until
\* the batch thread has submitted its items, and afterwards they count only
\* items of this batch: nothing of an earlier batch, and no earlier
\* stop_processing, is carried into the new one.
C21_StartStep ==
    /\ threads_started' = threads_started + 1
           => /\ processed_count' = 0
              /\ success_count' = 0
              /\ failed_paths' = <<>>
              /\ should_stop' = FALSE
              /\ \A i \in DOMAIN tasks' : tasks'[i].pc = "done"
    /\ thread_pc \in {"begin", "submit"}
           => processed_count = 0 /\ success_count = 0 /\ failed_paths = <<>>
    /\ thread_pc \in {"collect", "shutdown"}
           => /\ processed_count <= Cardinality(C21_Yielded)
              /\ success_count
                     <= Cardinality({i \in C21_Yielded : tasks[i].ok = "True"})
              /\ \A k \in DOMAIN failed_paths :
                     \E i \in C21_Yielded :
                         tasks[i].ok # "True" /\ tasks[i].path = failed_paths[k]

C22_BinaryFor(m, img) ==
    /\ ~ShapeDiffers(m, img)
    /\ \A p \in DOMAIN m.px : m.px[p] \in {0, 255}

\* C22: in the step in which remove_watermark (line 383) or
\* _process_single_image (line 293) calls cv2.inpaint, the mask it passes has
\* the width and height of the image it passes and holds only 0 and 255.
C22_CallStep ==
    /\ removal.pc = "inpaint" /\ removal'.pc # "inpaint" /\ original_image # None
           => C22_BinaryFor(removal.mask_binary, original_image)
    /\ \A i \in DOMAIN tasks :
           /\ tasks[i].pc = "inpaint"
           /\ i \in DOMAIN tasks'
           /\ tasks'[i].pc = "name"
           => C22_BinaryFor(tasks'[i].result.inpainted.mask, tasks[i].img)

C22_OracleMasks == [][C22_CallStep]_vars

(***************************************************************************)
(* The size of the pool.                                                   *)
(***************************************************************************)
\* C23: max_workers is min(max(1, cpu count), 4) for the machine's cpu count,
\* so it lies in 1..4, and never more than max_workers items are in a pool
\* thread at once.
C23_BoundedPool ==
    /\ max_workers \in {Min(Max(1, c), 4) : c \in CpuCounts}
    /\ max_workers \in 1..4
    /\ Cardinality(Busy(tasks)) <= max_workers

\* The single pool thread is busy with one item while another item waits.
C23_Witness ==
    /\ max_workers = 1
    /\ Cardinality(Busy(tasks)) = 1
    /\ \E i \in DOMAIN tasks : tasks[i].pc = "queued"

(***************************************************************************)
(* remove_watermark on an unmarked mask.                                   *)
(***************************************************************************)
\* C24: the step in which remove_watermark of the single-image remover finds
\* no marked pixel in the mask of a loaded image (line 378) leaves image,
\* original_image, mask and result_image as they are, calls no oracle, and
\* returns something other than what it returns when cv2.inpaint raises
\* (the False of line 399).
C24_UnmarkedStep ==
    /\ removal.pc = "resize"
    /\ removal'.pc = "idle"
    /\ mask # None
    /\ MaskMax(mask) = 0
    => /\ UNCHANGED <<image, original_image, mask, result_image>>
       /\ removal'.result = None
       /\ removal'.ret # RemoveReturned("False").ret

C24_NothingToDo == [][C24_UnmarkedStep]_vars

(***************************************************************************)
(* core.WatermarkRemover on one image: set_preview_quality,                *)
(* remove_watermark and the algorithms it dispatches to.  Images carry     *)
(* their size and where they come from, the remover's mask carries its     *)
(* pixels, a resampled image carries its size and what it was resampled    *)
(* from, and of a resampled mask the size is kept.  An operator that stands for code that may raise   *)
(* gives Raised when it does.                                              *)
(***************************************************************************)
Raised == [raised |-> TRUE]

\* Images and masks the remover can hold after load_image and some strokes:
\* width, height and the marked pixels.  The one-pixel-wide ones reach the
\* small area fractions with few pixels: a band of r rows at the top edge has
\* two rows of edge pixels, a segment inside has four, a lone pixel three.
AutoCases ==
    { [w |-> 1,  h |-> 1001, marked |-> {0} \X (0..9)],
      [w |-> 1,  h |-> 1001, marked |-> {0} \X (0..8)],
      [w |-> 1,  h |-> 1000, marked |-> {0} \X (0..9)],
      [w |-> 1,  h |-> 100,  marked |-> {<<0, 50>>}],
      [w |-> 1,  h |-> 201,  marked |-> {0} \X ((0..15) \cup (100..103))],
      [w |-> 1,  h |-> 200,  marked |-> {0} \X ((0..15) \cup (100..103))],
      [w |-> 11, h |-> 11,   marked |-> {<<5, 5>>}],
      [w |-> 12, h |-> 10,   marked |-> (0..2) \X (0..3)],
      [w |-> 4,  h |-> 4,    marked |-> {<<0, 0>>, <<1, 1>>}],
      [w |-> 2,  h |-> 2,    marked |-> {}] }

\* Values set_preview_quality is called with.
QualityInputs == {0, 50, 150}

\* The OpenCV builds considered: cv2.__version__ 3.x or 4.x, and whether
\* cv2.inpaint raises on the blocks _patchmatch_algorithm cuts out.
Cv2Builds == {[major |-> 4, raises |-> FALSE], [major |-> 3, raises |-> FALSE],
              [major |-> 4, raises |-> TRUE]}

\* The mask of a case: 255 where marked (ImageDraw fills with 255), 0 elsewhere.
MaskOf(c) ==
    [h |-> c.h, w |-> c.w,
     px |-> [p \in (0..(c.w-1)) \X (0..(c.h-1)) |->
                IF p \in c.marked THEN 255 ELSE 0]]

\* int(size * (preview_quality / 100)); for the qualities 1, 50, 80 and 100 the
\* floating-point product truncates to the integer quotient for every size up
\* to 2000.
ScaledSize(n, quality) == (n * quality) \div 100

\* image.resize((w, h), Image.LANCZOS) and cv2.resize(image, (w, h), ...):
\* both raise when w or h is 0.
Resized(x, w, h) ==
    IF w < 1 \/ h < 1 THEN Raised
    ELSE IF "src" \in DOMAIN x
         THEN [src |-> x.src, w |-> w, h |-> h, resized |-> x]
         ELSE [w |-> w, h |-> h]

\* cv2.threshold(mask, 127, 255, THRESH_BINARY) as cv2.inpaint receives it: of
\* the binary mask the results keep the size.
BinaryMask(m) == [w |-> m.w, h |-> m.h]

\* utils.inpaint_image(img, mask, method): cv2.inpaint with radius 3; cv2
\* raises when the mask has not the size of the image.
InpaintImage(img, m, method) ==
    IF img.w # m.w \/ img.h # m.h THEN Raised
    ELSE [src |-> img.src, w |-> img.w, h |-> img.h,
          inpainted |-> [image |-> img, mask |-> BinaryMask(m), radius |-> 3,
                         alg |-> IF method = "telea" THEN "INPAINT_TELEA"
                                 ELSE "INPAINT_NS"]]

\* _ns_algorithm(preview) and _telea_algorithm(preview), which differ in the
\* method they pass; _basic_remove does what _ns_algorithm does with cv2
\* called directly.
InpaintAlgorithm(img, m, method, preview, quality) ==
    IF ~preview THEN InpaintImage(img, m, method)
    ELSE LET nw == ScaledSize(img.w, quality)
             nh == ScaledSize(img.h, quality)
             small_image == Resized(img, nw, nh)
             small_mask  == Resized(m, nw, nh)
         IN  IF small_image = Raised \/ small_mask = Raised THEN Raised
             ELSE LET result_small == InpaintImage(small_image, small_mask, method)
                  IN  IF result_small = Raised THEN Raised
                      ELSE Resized(result_small, img.w, img.h)

\* The pixels of the 3x3 window around p that lie in the image: cv2.dilate and
\* cv2.erode leave the pixels beyond the border out of the maximum and minimum.
Window(m, p) ==
    {q \in ((p[1]-1)..(p[1]+1)) \X ((p[2]-1)..(p[2]+1)) :
        q[1] \in 0..(m.w-1) /\ q[2] \in 0..(m.h-1)}

\* cv2.dilate(mask_array, np.ones((3, 3)), iterations=1) at pixel p
Dilated(m, p) ==
    LET around == {m.px[q] : q \in Window(m, p)}
    IN  CHOOSE v \in around : \A u \in around : v >= u

\* cv2.erode(mask_array, np.ones((3, 3)), iterations=1) at pixel p
Eroded(m, p) ==
    LET around == {m.px[q] : q \in Window(m, p)}
    IN  CHOOSE v \in around : \A u \in around : v <= u

\* np.sum(mask_array > 127)
MarkedCount(m) == Cardinality({p \in DOMAIN m.px : m.px[p] > 127})

\* np.sum(edge > 0) for edge = dilated - eroded in uint8
EdgeCount(m) ==
    Cardinality({p \in DOMAIN m.px : (Dilated(m, p) - Eroded(m, p)) % 256 > 0})

\* A faulty choice whose complexity tests admit the thresholds themselves.
AutoChoiceInclusive(m) ==
    LET total_pixels == m.w * m.h
        marked == MarkedCount(m)
        edges  == EdgeCount(m)
    IN  IF marked * 100 < total_pixels
        THEN IF marked > 0 /\ edges * 5 >= marked THEN "telea" ELSE "ns"
        ELSE IF marked * 10 < total_pixels
        THEN IF edges * 10 >= marked * 3 THEN "patchmatch" ELSE "telea"
        ELSE "patchmatch"

\* _auto_algorithm, lines 637-667: the method chosen.  mask_area = marked /
\* total_pixels and complexity = edges / marked (0 when marked is 0) are
\* doubles; a quotient of integers below 2^31 is below, at or above the double
\* 0.01, 0.1, 0.2 or 0.3 exactly when the fraction is below, at or above the
\* decimal, so the tests are those of the cross products.
AutoChoice(m) ==
    LET total_pixels == m.w * m.h
        marked == MarkedCount(m)
        edges  == EdgeCount(m)
    IN  IF marked * 100 < total_pixels
        THEN IF marked > 0 /\ edges * 5 > marked THEN "telea" ELSE "ns"
        ELSE IF marked * 10 < total_pixels
        THEN IF edges * 10 > marked * 3 THEN "patchmatch" ELSE "telea"
        ELSE "patchmatch"

\* A run of an algorithm: what it returns (Raised when it raises) and the
\* records it passes to logging.
Ran(result, log) == [result |-> result, log |-> log]

\* _patchmatch_algorithm(preview)
PatchmatchAlgorithm(img, m, preview, quality, build) ==
    LET nw == ScaledSize(img.w, quality)
        nh == ScaledSize(img.h, quality)
        small    == Resized(m, nw, nh)
        cv_image == IF preview THEN Resized(img, nw, nh) ELSE img
        cv_mask  == IF ~preview THEN BinaryMask(m)
                    ELSE IF small = Raised THEN Raised
                    ELSE BinaryMask(small)
    IN  IF cv_image = Raised \/ cv_mask = Raised THEN Ran(Raised, <<>>)
        ELSE LET telea == [image |-> cv_image, mask |-> cv_mask, radius |-> 3,
                           alg |-> "INPAINT_TELEA"]
                 plain == [src |-> img.src, w |-> cv_image.w, h |-> cv_image.h,
                           inpainted |-> telea]
                 blocks == [src |-> img.src, w |-> cv_image.w, h |-> cv_image.h,
                            inpainted |-> telea,
                            blocks |-> [radius |-> IF preview THEN 5 ELSE 10,
                                        iterations |-> IF preview THEN 2 ELSE 5]]
                 result_cv == IF build.major >= 4
                              THEN IF build.raises THEN Raised ELSE blocks
                              ELSE plain
             IN  IF result_cv = Raised
                 THEN Ran(InpaintAlgorithm(img, m, "telea", preview, quality),
                          <<[level |-> "error", event |-> "patchmatch fallback"]>>)
                 ELSE Ran(IF preview THEN Resized(result_cv, img.w, img.h)
                          ELSE result_cv, <<>>)

\* _auto_algorithm(preview)
AutoAlgorithm(img, m, preview, quality, build) ==
    LET Chosen(choice) ==
            LET run == IF choice = "patchmatch"
                       THEN PatchmatchAlgorithm(img, m, preview, quality, build)
                       ELSE Ran(InpaintAlgorithm(img, m, choice, preview, quality),
                                <<>>)
            IN  Ran(run.result,
                    <<[level |-> "info", event |-> "auto", method |-> choice]>>
                        \o run.log)
    IN  Chosen(AutoChoice(m))

\* remove_watermark, lines 375-387: the dispatch on self.algorithm
Dispatch(code, img, m, preview, quality, build) ==
    CASE code = "telea"      -> Ran(InpaintAlgorithm(img, m, "telea", preview, quality), <<>>)
      [] code = "patchmatch" -> PatchmatchAlgorithm(img, m, preview, quality, build)
      [] code = "auto"       -> AutoAlgorithm(img, m, preview, quality, build)
      [] OTHER               -> Ran(InpaintAlgorithm(img, m, "ns", preview, quality), <<>>)

removeFrame == <<core_original_image, core_mask, core_algorithm, core_pc,
                 current_mask, current_algorithm, results, core_tasks,
                 core_collected, core_files, detected_regions, detect_ret,
                 contours, last_point, otherTabs>>

\* set_preview_quality(quality)
SetPreviewQuality(quality) ==
    /\ core_pc = "idle"
    /\ preview_quality' = IF quality < 1 THEN 1
                          ELSE IF quality > 100 THEN 100 ELSE quality
    /\ UNCHANGED <<core_current_image, core_ret, core_log, cv2_env, removeFrame>>

\* remove_watermark(preview)
CoreRemoveWatermark(preview) ==
    /\ core_pc = "idle"
    /\ IF core_original_image = None \/ core_mask = None
       THEN /\ core_log' = <<[level |-> "error", event |-> "no image or mask"]>>
            /\ core_ret' = None
            /\ UNCHANGED core_current_image
       ELSE IF MaskMax(core_mask) = 0
       THEN /\ core_log' = <<[level |-> "warning", event |-> "no marked region"]>>
            /\ core_ret' = core_original_image
            /\ UNCHANGED core_current_image
       ELSE \E run \in {Dispatch(core_algorithm, core_original_image, core_mask,
                                 preview, preview_quality, cv2_env)} :
                IF run.result = Raised
                THEN /\ core_log' = run.log \o <<[level |-> "error", event |-> "failed"]>>
                     /\ core_ret' = None
                     /\ UNCHANGED core_current_image
                ELSE /\ core_log' = run.log \o <<[level |-> "info", event |-> "done"]>>
                     /\ core_current_image' = run.result
                     /\ core_ret' = run.result
    /\ UNCHANGED <<preview_quality, cv2_env, removeFrame>>

\* The remover holds one of the cases, on one of the builds.
InitRemove ==
    /\ InitEdit /\ InitSingle /\ InitBatch /\ max_workers = 1 /\ InitScenario
    /\ InitView
    /\ calls = 0
    /\ \E c \in AutoCases :
           /\ core_original_image = [src |-> "photo.png", w |-> c.w, h |-> c.h]
           /\ core_current_image = [src |-> "photo.png", w |-> c.w, h |-> c.h]
           /\ core_mask = MaskOf(c)
    /\ core_algorithm = "ns"
    /\ core_pc = "idle"
    /\ current_mask = None
    /\ current_algorithm = "ns"
    /\ results = None
    /\ core_tasks = <<>>
    /\ core_collected = 0
    /\ core_files = {}
    /\ preview_quality = 80
    /\ detected_regions = <<>>
    /\ core_ret = None
    /\ detect_ret = <<>>
    /\ core_log = <<>>
    /\ cv2_env \in Cv2Builds
    /\ contours = <<>>
    /\ last_point = <<>>

RemoveSetAlgorithm ==
    \E code \in {"basic", "ns", "telea", "patchmatch", "auto", "sepia"} :
        CoreSetAlgorithm(code)
RemoveSetQuality == \E quality \in QualityInputs : SetPreviewQuality(quality)
RemoveRun == \E preview \in BOOLEAN : CoreRemoveWatermark(preview)

RemoveNext ==
    \/ RemoveSetAlgorithm
    \/ RemoveSetQuality
    \/ RemoveRun

SpecRemove == InitRemove /\ [][RemoveNext]_vars

(***************************************************************************)
(* Properties of core.WatermarkRemover on one image, checked under         *)
(* SpecRemove, in which the image and the mask stay as Init chose them.    *)
(***************************************************************************)
\* The marked pixels of a mask, and its edge pixels: those with a marked and
\* an unmarked pixel among themselves and their neighbours.
C25_Marked(m) == {p \in DOMAIN m.px : m.px[p] = 255}
C25_Edge(m) ==
    {p \in DOMAIN m.px :
        /\ \E q \in Window(m, p) : m.px[q] = 255
        /\ \E q \in Window(m, p) : m.px[q] = 0}

\* The method the decision table gives for n marked and e edge pixels among
\* t pixels, with a = n / t and c = e / n (0 when n = 0).
C25_Table(n, e, t) ==
    { method \in {"ns", "telea", "patchmatch"} :
        /\ 100 * n < t /\ n > 0 /\ 5 * e > n                    => method = "telea"
        /\ 100 * n < t /\ ~(n > 0 /\ 5 * e > n)                 => method = "ns"
        /\ 100 * n >= t /\ 10 * n < t /\ 10 * e > 3 * n         => method = "patchmatch"
        /\ 100 * n >= t /\ 10 * n < t /\ 10 * e <= 3 * n        => method = "telea"
        /\ 10 * n >= t                                          => method = "patchmatch" }

\* C25: whenever _auto_algorithm has chosen, the method it announces and runs
\* is the one the decision table gives for the mask's area fraction and
\* complexity, and the table gives exactly one.
C25_AutoTable ==
    \A k \in DOMAIN core_log :
        core_log[k].event = "auto"
            => /\ C25_Table(Cardinality(C25_Marked(core_mask)),
                            Cardinality(C25_Edge(core_mask)),
                            core_mask.w * core_mask.h) = {core_log[k].method}
               /\ core_ret # None /\ "inpainted" \in DOMAIN core_ret
                      => /\ core_ret.inpainted.alg = "INPAINT_NS"
                             <=> core_log[k].method = "ns"
                         /\ "blocks" \in DOMAIN core_ret
                             => core_log[k].method = "patchmatch"

\* _auto_algorithm has chosen Navier-Stokes for a mask whose marked pixels are
\* under a hundredth of the image and whose complexity is exactly 0.2.
C25_Witness ==
    /\ \E k \in DOMAIN core_log :
           core_log[k].event = "auto" /\ core_log[k].method = "ns"
    /\ core_ret # None
    /\ Cardinality(C25_Marked(core_mask)) = 10
    /\ Cardinality(C25_Edge(core_mask)) = 2

\* A step of remove_watermark: the other methods of SpecRemove change the
\* algorithm or the preview quality, or nothing.
C26_Removed ==
    /\ core_algorithm' = core_algorithm
    /\ preview_quality' = preview_quality
    /\ <<core_ret, core_log, core_current_image>>'
           # <<core_ret, core_log, core_current_image>>

\* C26: when remove_watermark returns a result after the patch-based method
\* was selected, by set_algorithm or by _auto_algorithm, on a build where it
\* cannot be carried out (OpenCV older than 4, or cv2.inpaint raising on a
\* block), the result is what _telea_algorithm gives and the call has logged
\* the fallback.
C26_FallbackStep ==
    /\ C26_Removed
    /\ core_algorithm = "patchmatch"
           \/ (core_algorithm = "auto" /\ AutoChoice(core_mask) = "patchmatch")
    /\ MaskMax(core_mask) > 0
    /\ cv2_env.major < 4 \/ cv2_env.raises
    /\ core_ret' # None
    => /\ \E preview \in BOOLEAN :
              core_ret' = InpaintAlgorithm(core_original_image, core_mask, "telea",
                                           preview, preview_quality)
       /\ \E k \in DOMAIN core_log' : core_log'[k].event = "patchmatch fallback"

C26_FallbackLogged == [][C26_FallbackStep]_vars

\* What remove_watermark(preview=True) returns in this state.
C27_Preview ==
    LET run == Dispatch(core_algorithm, core_original_image, core_mask, TRUE,
                        preview_quality, cv2_env)
    IN  IF run.result = Raised THEN None ELSE run.result

\* C27: a step of remove_watermark in preview mode on a marked mask returns an
\* image of the width and height of original_image, whatever the algorithm,
\* the preview quality and the size of the image.
C27_PreviewStep ==
    /\ C26_Removed
    /\ MaskMax(core_mask) > 0
    /\ core_ret' = C27_Preview
    => /\ core_ret' # None
       /\ core_ret'.w = core_original_image.w
       /\ core_ret'.h = core_original_image.h

C27_PreviewSize == [][C27_PreviewStep]_vars

(***************************************************************************)
(* core.WatermarkRemover.detect_watermark.  The thresholding, the          *)
(* morphology and cv2.findContours are the environment's: a call is given  *)
(* the bounding boxes it finds, each with the standard deviation of the    *)
(* grey values and the gradient sum per pixel that                         *)
(* _calculate_watermark_confidence measures on it.                         *)
(***************************************************************************)
\* The image of the detector's cases: 50 x 20, of which a thousandth is the
\* area 1 and a fifth the area 200.
DetectImage == [src |-> "scan.png", w |-> 50, h |-> 20]

Box(x, y, w, h, std_dev, gradient) ==
    [x |-> x, y |-> y, w |-> w, h |-> h, std_dev |-> std_dev,
     gradient |-> gradient]

\* Boxes of the areas 2, 198, 9, 8, 10, 4 and 3, and of the areas 1, 200, 204
\* and 1000.
DetectBoxes ==
    { Box(3, 3, 2, 1, 0, 0),      Box(30, 9, 18, 11, 51, 0),
      Box(47, 17, 3, 3, 0, 40),   Box(10, 0, 4, 2, 51, 40),
      Box(20, 5, 5, 2, 0, 250),   Box(0, 15, 2, 2, 51, 250),
      Box(40, 0, 3, 1, 0, 0),
      Box(0, 0, 1, 1, 0, 250),    Box(0, 0, 20, 10, 0, 250),
      Box(5, 5, 17, 12, 0, 40),   Box(0, 0, 50, 20, 51, 0) }

\* The lists of boxes a call can find: none, every single box, the pairs of
\* four of the boxes, and three lists of more than five.
ContourLists ==
    {<<>>} \cup {<<b>> : b \in DetectBoxes}
      \cup {<<a, b>> : a, b \in {Box(3, 3, 2, 1, 0, 0), Box(20, 5, 5, 2, 0, 250),
                                 Box(0, 0, 1, 1, 0, 250),
                                 Box(0, 0, 20, 10, 0, 250)}}
      \cup { << Box(3, 3, 2, 1, 0, 0), Box(30, 9, 18, 11, 51, 0),
                Box(47, 17, 3, 3, 0, 40), Box(10, 0, 4, 2, 51, 40),
                Box(20, 5, 5, 2, 0, 250), Box(0, 15, 2, 2, 51, 250),
                Box(40, 0, 3, 1, 0, 0) >>,
             << Box(40, 0, 3, 1, 0, 0), Box(0, 0, 20, 10, 0, 250),
                Box(0, 15, 2, 2, 51, 250), Box(3, 3, 2, 1, 0, 0),
                Box(10, 0, 4, 2, 51, 40), Box(30, 9, 18, 11, 51, 0),
                Box(47, 17, 3, 3, 0, 40), Box(0, 0, 1, 1, 0, 250) >>,
             << Box(3, 3, 2, 1, 0, 0), Box(40, 0, 3, 1, 0, 0),
                Box(3, 3, 2, 1, 0, 0), Box(40, 0, 3, 1, 0, 0),
                Box(3, 3, 2, 1, 0, 0), Box(40, 0, 3, 1, 0, 0) >> }

\* The unit of the confidences: a confidence c is held as ConfidenceOne * c.
ConfidenceOne == 51000

\* A faulty confidence that is not limited to the range 0..1.
ConfidenceUnlimited(std_dev, gradient) ==
    100 * (255 - std_dev) + 255 * gradient

\* _calculate_watermark_confidence, lines 323-326:
\* (1 - std_dev / 255) * 0.5 + (normalized_gradient / 100) * 0.5, limited to
\* the range 0..1
Confidence(std_dev, gradient) ==
    Max(0, Min(ConfidenceOne, 100 * (255 - std_dev) + 255 * gradient))

\* A faulty filter that admits the two limits.
PassesAreaFilterInclusive(area, img_area) ==
    img_area <= 1000 * area /\ 5 * area <= img_area

\* line 257: 0.001 * img_area < area < 0.2 * img_area.  For the image areas
\* up to 200000 the doubles 0.001 * img_area and 0.2 * img_area are below, at
\* or above an integer area exactly when img_area / 1000 and img_area / 5 are.
PassesAreaFilter(area, img_area) ==
    img_area < 1000 * area /\ 5 * area < img_area

\* lines 258-265: the region of a box
Region(b) ==
    [x |-> b.x, y |-> b.y, width |-> b.w, height |-> b.h, area |-> b.w * b.h,
     confidence |-> Confidence(b.std_dev, b.gradient)]

\* lines 252-266: the regions of the boxes that pass the filter, in the order
\* of the contours
RECURSIVE Filtered(_, _)
Filtered(boxes, img_area) ==
    IF boxes = <<>> THEN <<>>
    ELSE LET rest == Filtered(Tail(boxes), img_area)
         IN  IF PassesAreaFilter(Head(boxes).w * Head(boxes).h, img_area)
             THEN <<Region(Head(boxes))>> \o rest
             ELSE rest

\* list.sort(key=confidence, reverse=True), line 269: a stable sort, so
\* regions of equal confidence keep their order
RECURSIVE SortedByConfidence(_)
SortedByConfidence(regions) ==
    IF regions = <<>> THEN <<>>
    ELSE LET first == Head(regions)
             rest  == SortedByConfidence(Tail(regions))
             ahead == SelectSeq(rest, LAMBDA r : r.confidence > first.confidence)
             after == SelectSeq(rest, LAMBDA r : r.confidence <= first.confidence)
         IN  ahead \o <<first>> \o after

\* detected_regions[:5], line 272
FirstFive(regions) == SubSeq(regions, 1, Min(5, Len(regions)))

\* draw.rectangle([x, y, x + w, y + h], fill=255), line 283: ImageDraw fills
\* the rectangle with both corners included, inside the image
Rectangle(m, r) ==
    Fill(m, {p \in DOMAIN m.px : /\ r.x <= p[1] /\ p[1] <= r.x + r.width
                                  /\ r.y <= p[2] /\ p[2] <= r.y + r.height})

\* lines 279-283: the rectangles of the regions, drawn one after the other
RECURSIVE Rectangles(_, _)
Rectangles(m, regions) ==
    IF regions = <<>> THEN m
    ELSE Rectangles(Rectangle(m, Head(regions)), Tail(regions))

\* detect_watermark(), when cv2.findContours gives the contours of boxes
DetectWatermark(boxes) ==
    /\ core_pc = "idle"
    /\ IF core_original_image = None
       THEN /\ detect_ret' = <<>>
            /\ contours' = <<>>
            /\ UNCHANGED <<detected_regions, core_mask>>
       ELSE LET img_area == core_original_image.w * core_original_image.h
                found == SortedByConfidence(Filtered(boxes, img_area))
            IN  /\ contours' = boxes
                /\ detected_regions' = FirstFive(found)
                /\ IF found = <<>>
                   THEN detect_ret' = <<>> /\ UNCHANGED core_mask
                   ELSE IF core_mask = None
                   THEN detect_ret' = <<>> /\ UNCHANGED core_mask
                   ELSE /\ detect_ret' = FirstFive(found)
                        /\ core_mask' = Rectangles(Zeros(core_original_image.h,
                                                         core_original_image.w),
                                                   FirstFive(found))
    /\ UNCHANGED <<core_original_image, core_current_image, core_algorithm,
                   core_pc, current_mask, current_algorithm, results,
                   core_tasks, core_collected, core_files, preview_quality,
                   core_ret, core_log, cv2_env, last_point, otherTabs>>

\* The detector's remover: new, or with the image loaded.
InitDetect ==
    /\ InitEdit /\ InitSingle /\ InitBatch /\ max_workers = 1 /\ InitScenario
    /\ InitView
    /\ calls = 0
    /\ \/ /\ core_original_image = None
          /\ core_current_image = None
          /\ core_mask = None
       \/ /\ core_original_image = DetectImage
          /\ core_current_image = DetectImage
          /\ core_mask = Zeros(DetectImage.h, DetectImage.w)
    /\ core_algorithm = "ns"
    /\ core_pc = "idle"
    /\ current_mask = None
    /\ current_algorithm = "ns"
    /\ results = None
    /\ core_tasks = <<>>
    /\ core_collected = 0
    /\ core_files = {}
    /\ preview_quality = 80
    /\ detected_regions = <<>>
    /\ core_ret = None
    /\ detect_ret = <<>>
    /\ core_log = <<>>
    /\ cv2_env = [major |-> 4, raises |-> FALSE]
    /\ contours = <<>>
    /\ last_point = <<>>

DetectMark == \E pt \in CanvasPoints : CoreStartDraw(pt)
DetectRun == \E boxes \in ContourLists : DetectWatermark(boxes)

DetectNext ==
    \/ DetectMark
    \/ DetectRun

SpecDetect == InitDetect /\ [][DetectNext]_vars

(***************************************************************************)
(* Properties of detect_watermark, checked under SpecDetect.               *)
(***************************************************************************)
\* The contours of the last call whose boxes passed the area filter.
C28_Kept ==
    {i \in DOMAIN contours :
        PassesAreaFilter(contours[i].w * contours[i].h,
                         core_original_image.w * core_original_image.h)}

\* C28: what detect_watermark returned has at most 5 regions, each with a
\* confidence between 0 and 1, in order of non-increasing confidence; they are
\* regions of boxes that passed the area filter, as many as there are up to 5,
\* and no box that passed and was left out has a higher confidence than a
\* returned one.
C28_TopFive ==
    /\ Len(detect_ret) <= 5
    /\ \A j \in DOMAIN detect_ret :
           /\ detect_ret[j].confidence >= 0
           /\ detect_ret[j].confidence <= ConfidenceOne
           /\ j < Len(detect_ret)
                  => detect_ret[j].confidence >= detect_ret[j + 1].confidence
    /\ core_original_image # None
           => /\ Len(detect_ret) = Min(5, Cardinality(C28_Kept))
              /\ \A j \in DOMAIN detect_ret :
                     \E i \in C28_Kept : detect_ret[j] = Region(contours[i])
              /\ \A i \in C28_Kept :
                     (\A j \in DOMAIN detect_ret : detect_ret[j] # Region(contours[i]))
                         => \A j \in DOMAIN detect_ret :
                                detect_ret[j].confidence
                                    >= Region(contours[i]).confidence

\* A call that found eight boxes, six of which passed the filter, has returned
\* five regions, the first with the confidence 1 and the last with less.
C28_Witness ==
    /\ Len(contours) = 8
    /\ Len(detect_ret) = 5
    /\ detect_ret[1].confidence = ConfidenceOne
    /\ detect_ret[5].confidence < ConfidenceOne

\* The mask of the image's size that marks the pixels of the boxes of the
\* regions and no other pixel.
C29_BoxesOnly(regions, img) ==
    [h |-> img.h, w |-> img.w,
     px |-> [p \in (0..(img.w-1)) \X (0..(img.h-1)) |->
                IF \E j \in DOMAIN regions :
                       /\ regions[j].x <= p[1]
                       /\ p[1] < regions[j].x + regions[j].width
                       /\ regions[j].y <= p[2]
                       /\ p[2] < regions[j].y + regions[j].height
                THEN 255 ELSE 0]]

\* C29: a call of detect_watermark that returns the empty list (no region
\* found, or no image loaded) leaves the mask as it was; a call that returns
\* regions leaves a mask that marks the pixels of the returned boxes and no
\* other pixel, whatever the mask held before.
C29_DetectStep ==
    contours' # contours \/ detect_ret' # detect_ret
        => IF detect_ret' = <<>>
           THEN core_mask' = core_mask
           ELSE core_mask' = C29_BoxesOnly(detect_ret', core_original_image)

C29_MaskOfBoxes == [][C29_DetectStep]_vars

\* The boxes of the last call whose region was returned.
C30_Returned ==
    {i \in DOMAIN contours :
        \E j \in DOMAIN detect_ret :
            /\ detect_ret[j].x = contours[i].x
            /\ detect_ret[j].y = contours[i].y
            /\ detect_ret[j].width = contours[i].w
            /\ detect_ret[j].height = contours[i].h}

\* C30 as claimed: of at most five boxes found in a loaded image, those
\* returned are those whose area lies in the closed interval from 0.001 to 0.2
\* of the image's area, the limits included.
C30_ClosedInterval ==
    core_original_image # None /\ Len(contours) <= 5
        => \A i \in DOMAIN contours :
               i \in C30_Returned
                   <=> /\ core_original_image.w * core_original_image.h
                              <= 1000 * contours[i].w * contours[i].h
                       /\ 5 * contours[i].w * contours[i].h
                              <= core_original_image.w * core_original_image.h

\* C30, amended: of at most five boxes found in a loaded image, those returned
\* are those whose area lies strictly between 0.001 and 0.2 of the image's
\* area; a box whose area equals a limit is rejected.
C30_OpenInterval ==
    core_original_image # None /\ Len(contours) <= 5
        => \A i \in DOMAIN contours :
               i \in C30_Returned
                   <=> /\ core_original_image.w * core_original_image.h
                              < 1000 * contours[i].w * contours[i].h
                       /\ 5 * contours[i].w * contours[i].h
                              < core_original_image.w * core_original_image.h

\* A call has found a box of the area 2 and a box of exactly a fifth of the
\* image's area, and has returned the first only.
C30_Witness ==
    /\ core_original_image # None
    /\ Len(contours) = 2
    /\ contours[1].w * contours[1].h = 2
    /\ 5 * contours[2].w * contours[2].h
           = core_original_image.w * core_original_image.h
    /\ C30_Returned = {1}

(***************************************************************************)
(* SpecDisplay: the display scale and the coordinate conversion of the     *)
(* single-image tab, while the window is resized and the image replaced.   *)
(***************************************************************************)
\* The files offered to load_image here: images of two sizes and a path that
\* does not exist.
DisplayPaths == {"tpl.png", "tall.png", "missing.png"}

\* The sizes the window gives the canvas.
DisplaySizes == {<<4, 4>>, <<2, 2>>}

\* The canvas points converted: on the canvas, its centres, and outside it.
DisplayPoints == {<<1, 1>>, <<2, 2>>, <<-2, 1>>, <<9, 9>>}

\* set_display_size(width, height)
SetDisplaySize(width, height) ==
    /\ display_width' = width
    /\ display_height' = height
    /\ scale_factor' = IF image # None THEN FitScale(width, height, image)
                       ELSE scale_factor
    /\ ret' = "None"
    /\ UNCHANGED <<removerVars, tabVars, template_mask, coords>>

\* What a call of canvas_to_image_coords(pt) read and returned, the display
\* size and the scale being dw, dh and sc.
Converted(pt, dw, dh, sc) ==
    [pt |-> pt, image |-> image, display |-> <<dw, dh>>, scale |-> sc,
     ret |-> CanvasToImageCoords(pt, image, dw, dh, sc)]

\* canvas_to_image_coords(pt)
CanvasToImage(pt) ==
    /\ coords' = Converted(pt, display_width, display_height, scale_factor)
    /\ UNCHANGED <<editVars, template_mask>>

\* <Motion>: _show_brush_preview, which sets the display size from the canvas
\* and converts the pointer's position in show_brush_preview
ShowBrushPreview(pt, cs) ==
    /\ ~drawing
    /\ image # None
    /\ display_width' = cs[1]
    /\ display_height' = cs[2]
    /\ scale_factor' = FitScale(cs[1], cs[2], image)
    /\ coords' = Converted(pt, cs[1], cs[2], scale_factor')
    /\ UNCHANGED <<removerVars, tabVars, ret, template_mask>>

\* A call of the interactive thread in this specification.
Viewed(name) ==
    /\ ui_pc = "idle"
    /\ calls < MaxCalls
    /\ calls' = calls + 1
    /\ last_call' = name
    /\ UNCHANGED <<removal, removals, batchOnlyVars, scenarioVars, coreVars, canvas,
                   stroke, configVars>>

\* The window manager gives the canvas another size.
ViewResize ==
    /\ \E cs \in DisplaySizes : cs # canvas /\ canvas' = cs
    /\ UNCHANGED <<editVars, singleVars, batchVars, scenarioVars, calls, coreVars,
                   coords, stroke, configVars>>

ViewLoad ==
    /\ \E path \in DisplayPaths : LoadImage(path)
    /\ Viewed("load_image")
    /\ UNCHANGED <<ui_pc, coords>>

ViewSetDisplaySize ==
    /\ SetDisplaySize(canvas[1], canvas[2])
    /\ Viewed("set_display_size")
    /\ UNCHANGED ui_pc

ViewConvert ==
    /\ \E pt \in DisplayPoints : CanvasToImage(pt)
    /\ Viewed("canvas_to_image_coords")
    /\ UNCHANGED ui_pc

ViewPreview ==
    /\ \E pt \in DisplayPoints : ShowBrushPreview(pt, canvas)
    /\ Viewed("show_brush_preview")
    /\ UNCHANGED ui_pc

ViewStartDraw ==
    /\ \E pt \in CanvasPoints, b \in BrushSizes : StartDraw(pt, b, canvas)
    /\ Viewed("start_draw")
    /\ UNCHANGED <<ui_pc, coords>>

ViewDraw ==
    /\ \E pt \in CanvasPoints, b \in BrushSizes, snapshot \in BOOLEAN :
           Draw(pt, b, canvas, snapshot)
    /\ Viewed("draw")
    /\ UNCHANGED <<ui_pc, coords>>

ViewStopDraw ==
    /\ StopDraw
    /\ Viewed("stop_draw")
    /\ UNCHANGED <<ui_pc, coords>>

ViewContinue ==
    /\ ContinueEditResult
    /\ Viewed("continue_edit_result")
    /\ UNCHANGED coords

ViewContinueOriginal ==
    /\ ContinueEditOriginal
    /\ UNCHANGED <<removal, removals, last_call, batchOnlyVars, scenarioVars,
                   calls, coreVars, viewVars>>

ViewContinueFinish ==
    /\ ContinueEditFinish
    /\ UNCHANGED <<removal, removals, last_call, batchOnlyVars, scenarioVars,
                   calls, coreVars, viewVars>>

DisplayNext ==
    \/ ViewResize
    \/ ViewLoad
    \/ ViewSetDisplaySize
    \/ ViewConvert
    \/ ViewPreview
    \/ ViewStartDraw
    \/ ViewDraw
    \/ ViewStopDraw
    \/ ViewContinue
    \/ ViewContinueOriginal
    \/ ViewContinueFinish

\* The remover after tpl.png was loaded, marked with one stroke at the canvas
\* origin and processed: remove_watermark has stored its result.
Processed ==
    LET img == ImRead("tpl.png")
        cs  == <<4, 4>>
        sc  == FitScale(cs[1], cs[2], img)
        m0  == Zeros(img.h, img.w)
        m1  == StartDrawMask(m0, img, <<0, 0>>, 2, cs[1], cs[2], sc)
    IN  /\ image = img
        /\ original_image = img
        /\ mask = m1
        /\ result_image = Inpaint(img, Threshold(m1), remover_inpaint_radius,
                                  remover_algorithm)
        /\ mask_history = <<m0, m1>>
        /\ history_index = 1
        /\ shared = {}
        /\ display_width = cs[1]
        /\ display_height = cs[2]
        /\ scale_factor = sc
        /\ drawing = FALSE
        /\ last_x = 0
        /\ last_y = 0
        /\ pressed = FALSE
        /\ ret = "None"

\* The tab is opened on a new remover, or the user has processed one image.
InitDisplay ==
    /\ InitEdit \/ Processed
    /\ InitSingle
    /\ InitBatch
    /\ InitScenario
    /\ InitView
    /\ calls = 0
    /\ InitCore

SpecDisplay == InitDisplay /\ [][DisplayNext]_vars

(***************************************************************************)
(* Properties of the display scale and the coordinate conversion.          *)
(***************************************************************************)
\* C31: whatever the display size and the scale, current or stale, a call of
\* canvas_to_image_coords made with an image of w x h pixels loaded returns
\* integers x in 0..w-1 and y in 0..h-1.
C31_InsideImage ==
    coords # None /\ coords.image # None
        => /\ coords.ret[1] \in 0..(coords.image.w - 1)
           /\ coords.ret[2] \in 0..(coords.image.h - 1)

\* A point far outside the canvas was converted with a scale that is not the
\* fit scale of the image in the display.
C31_Witness ==
    /\ coords # None
    /\ coords.image # None
    /\ coords.pt = <<9, 9>>
    /\ coords.scale # FitScale(coords.display[1], coords.display[2], coords.image)
    /\ coords.ret = <<coords.image.w - 1, coords.image.h - 1>>

\* The last conversion was of the canvas's centre, with the scale that
\* set_display_size computes for the image in that display.
C32_CentreConverted ==
    /\ coords # None
    /\ coords.image # None
    /\ coords.scale = FitScale(coords.display[1], coords.display[2], coords.image)
    /\ 2 * coords.pt[1] = coords.display[1]
    /\ 2 * coords.pt[2] = coords.display[2]

\* |a|
C32_Abs(a) == IF a < 0 THEN -a ELSE a

\* C32 as claimed: after set_display_size the canvas's centre is converted to
\* a point within 1 pixel of the image's centre (w/2, h/2) on each axis.
C32_CentreWithinOnePixel ==
    C32_CentreConverted
        => /\ C32_Abs(2 * coords.ret[1] - coords.image.w) <= 2
           /\ C32_Abs(2 * coords.ret[2] - coords.image.h) <= 2

\* C32, amended: after set_display_size the canvas's centre is converted to a
\* point within 1 + 1 / (2 * scale_factor) pixels of the image's centre on
\* each axis, that is one image pixel and half a canvas pixel.
C32_CentreWithinHalfCanvasPixel ==
    C32_CentreConverted
        => /\ C32_Abs(2 * coords.ret[1] - coords.image.w) * coords.scale[1]
                  <= 2 * coords.scale[1] + coords.scale[2]
           /\ C32_Abs(2 * coords.ret[2] - coords.image.h) * coords.scale[1]
                  <= 2 * coords.scale[1] + coords.scale[2]

\* The centre of the 2 x 2 canvas was converted with the image of 3 x 6
\* pixels fitted into it, and the point returned lies 1.5 pixels left of the
\* image's centre.
C32_Witness ==
    /\ C32_CentreConverted
    /\ coords.image.w = 3 /\ coords.image.h = 6
    /\ coords.display = <<2, 2>>
    /\ coords.ret = <<0, 3>>

\* C33: after every press and every motion of the pointer that painted with
\* an image and a mask present, scale_factor is the fit scale of the image in
\* the canvas as it is now, and the display size is the canvas's size.
C33_Painting ==
    /\ calls' # calls
    /\ last_call' \in {"start_draw", "draw"}
    /\ image # None /\ mask # None
    /\ last_call' = "draw" => drawing

C33_PaintStep ==
    C33_Painting => /\ scale_factor' = FitScale(canvas[1], canvas[2], image')
                    /\ <<display_width', display_height'>> = canvas

C33_ScaleFresh == [][C33_PaintStep]_vars

\* The pointer is pressed on an image loaded after the canvas was resized, the
\* display size stored before is not the canvas's, and the scale has been
\* computed anew.
C33_Witness ==
    /\ last_call = "start_draw"
    /\ pressed
    /\ image # None /\ image.src = "tall.png"
    /\ canvas = <<2, 2>>
    /\ scale_factor = FitScale(2, 2, image)
    /\ mask # None /\ MaskMax(mask) = 255

(***************************************************************************)
(* SpecPaint: the paint methods of both removers, called with and without  *)
(* an image and with points on and outside the image.                      *)
(***************************************************************************)
\* Canvas points handed to the tab remover's paint methods: on the displayed
\* image, left of the canvas and beyond it.
PaintPoints == {<<0, 0>>, <<3, 3>>, <<-2, 1>>, <<9, 9>>}

\* Image points handed to core.WatermarkRemover's start_draw and draw.
CorePaintPoints == {<<0, 0>>, <<19, 0>>, <<-1, 0>>, <<25, 5>>}

\* The point lists handed to add_mask_region.
RegionLists == {<<>>, <<<<3, 3>>>>, <<<<9, 9>>>>, <<<<0, 0>>, <<-2, 1>>>>}

\* The radius handed to add_mask_region.
RegionRadii == {1}

\* The mask and the template's reference after a paint method that began with
\* the mask m and left painted.
Repainted(painted) ==
    /\ mask' = painted
    /\ template_mask' = IF ShapeDiffers(mask, image) THEN Rebound(template_mask)
                        ELSE template_mask

\* start_draw(canvas_point, brush_size)
RemoverStartDraw(pt, brush_size) ==
    /\ IF image = None \/ mask = None
       THEN UNCHANGED <<mask, template_mask>>
       ELSE Repainted(StartDrawMask(mask, image, pt, brush_size, display_width,
                                    display_height, scale_factor))
    /\ PaintedInPlace
    /\ ret' = "None"
    /\ UNCHANGED <<image, original_image, result_image, history_index,
                   displayVars, tabVars>>

\* draw_line_on_mask(start_canvas_coords, end_canvas_coords, brush_size)
DrawLineOnMask(from, to, brush_size, snapshot) ==
    /\ IF image = None \/ mask = None
       THEN UNCHANGED <<mask, template_mask, mask_history, history_index,
                        shared>>
       ELSE LET m  == DrawLineMask(mask, image, from, to, brush_size,
                                   display_width, display_height, scale_factor)
                hist == IF Replaces THEN mask_history
                        ELSE InPlace(mask_history, shared, m)
                sh == IF Replaces THEN {} ELSE shared
                sv == IF snapshot
                      THEN SaveMaskToHistory(hist, history_index, m)
                      ELSE [history |-> hist, index |-> history_index]
            IN  /\ Len(sv.history) <= MaxHistory
                /\ shared' = IF snapshot
                              THEN SharedAfterSave(sh, Len(sv.history) - 1)
                              ELSE sh
                /\ Repainted(m)
                /\ mask_history' = sv.history
                /\ history_index' = sv.index
    /\ ret' = "None"
    /\ UNCHANGED <<image, original_image, result_image, displayVars, tabVars>>

\* The loop of add_mask_region over canvas_points.
RECURSIVE RegionMask(_, _, _, _, _, _, _)
RegionMask(m, img, points, radius, dw, dh, sc) ==
    IF points = <<>> THEN m
    ELSE LET ip == CanvasToImageCoords(Head(points), img, dw, dh, sc)
         IN  RegionMask(IF InMask(m, ip) THEN Circle(m, ip, radius) ELSE m,
                        img, Tail(points), radius, dw, dh, sc)

\* add_mask_region(canvas_points, radius)
AddMaskRegion(points, radius) ==
    /\ IF image = None \/ mask = None
       THEN UNCHANGED <<mask, template_mask>>
       ELSE Repainted(RegionMask(WorkMask(mask, image), image, points, radius,
                                 display_width, display_height, scale_factor))
    /\ PaintedInPlace
    /\ ret' = "None"
    /\ UNCHANGED <<image, original_image, result_image, history_index,
                   displayVars, tabVars>>

\* A call on the tab's remover: its name and arguments are kept.
Painted(name, points) ==
    /\ calls < MaxCalls
    /\ calls' = calls + 1
    /\ last_call' = name
    /\ stroke' = [op |-> name, points |-> points]
    /\ UNCHANGED <<removal, removals, ui_pc, batchOnlyVars, scenarioVars,
                   coreVars, canvas, coords, configVars>>

PaintLoad ==
    /\ LoadImage("tpl.png")
    /\ Painted("load_image", <<>>)

PaintSetDisplaySize ==
    /\ SetDisplaySize(canvas[1], canvas[2])
    /\ calls < MaxCalls
    /\ calls' = calls + 1
    /\ last_call' = "set_display_size"
    /\ UNCHANGED <<removal, removals, ui_pc, batchOnlyVars, scenarioVars,
                   coreVars, canvas, stroke, configVars>>

PaintStartDraw ==
    \E pt \in PaintPoints, b \in BrushSizes :
        RemoverStartDraw(pt, b) /\ Painted("start_draw", <<pt>>)

PaintDrawLine ==
    \E from \in {<<0, 0>>, <<-2, 1>>}, to \in {<<3, 3>>, <<9, 9>>},
       b \in BrushSizes, snapshot \in BOOLEAN :
        DrawLineOnMask(from, to, b, snapshot)
            /\ Painted("draw_line_on_mask", <<from, to>>)

PaintAddRegion ==
    \E points \in RegionLists, radius \in RegionRadii :
        AddMaskRegion(points, radius) /\ Painted("add_mask_region", points)

PaintCoreLoad == CoreLoadImage("strip.png")
PaintCoreStartDraw == \E pt \in CorePaintPoints : CoreStartDraw(pt)
PaintCoreDraw == \E pt \in CorePaintPoints : CoreDraw(pt)

PaintNext ==
    \/ PaintLoad
    \/ PaintSetDisplaySize
    \/ PaintStartDraw
    \/ PaintDrawLine
    \/ PaintAddRegion
    \/ PaintCoreLoad
    \/ PaintCoreStartDraw
    \/ PaintCoreDraw
    \/ CoreEndDraw

SpecPaint == Init /\ [][PaintNext]_vars

(***************************************************************************)
(* Properties of painting.                                                 *)
(***************************************************************************)
\* The point p lies outside the mask m.
C34_Outside(m, p) == p[1] < 0 \/ p[2] < 0 \/ p[1] >= m.w \/ p[2] >= m.h

\* The image point nearest to the conversion of the canvas point pt.
C34_Clamped(pt) ==
    LET u == CanvasToImageCoordsUnclamped(pt, image, display_width,
                                          display_height, scale_factor)
    IN  <<Max(0, Min(u[1], image.w - 1)), Max(0, Min(u[2], image.h - 1))>>

\* The mask m painted as the method of the name paints it at the image
\* points ps.
C34_PaintedAt(m, name, ps) ==
    CASE name = "start_draw" -> Circle(m, ps[1], BrushRadius(2))
      [] name = "draw_line_on_mask" ->
             Circle(Circle(Line(m, ps[1], ps[2], 2), ps[1], BrushRadius(2)),
                    ps[2], BrushRadius(2))
      [] OTHER ->
             IF Len(ps) = 0 THEN m
             ELSE IF Len(ps) = 1 THEN Circle(m, ps[1], 1)
             ELSE Circle(Circle(m, ps[1], 1), ps[2], 1)

\* A paint method of the tab's remover is called.
C34_TabCalled ==
    /\ calls' # calls
    /\ last_call' \in {"start_draw", "draw_line_on_mask", "add_mask_region"}

\* The tab's remover: without an image or a mask the call leaves the mask as
\* it is; with them the mask keeps its size and is either unchanged or
\* painted at the points clamped into the image.
C34_TabStep ==
    C34_TabCalled =>
        IF image = None \/ mask = None THEN mask' = mask
        ELSE /\ mask'.w = mask.w /\ mask'.h = mask.h
             /\ DOMAIN mask'.px = DOMAIN mask.px
             /\ \/ mask' = mask
                \/ mask' = C34_PaintedAt(mask, last_call',
                               [i \in DOMAIN stroke'.points |->
                                   C34_Clamped(stroke'.points[i])])

\* core.WatermarkRemover: start_draw or draw has stored the point it was
\* called with.
C34_CoreCalled ==
    /\ last_point' # <<>>
    /\ last_point' # last_point
    /\ core_original_image' = core_original_image

\* core.WatermarkRemover: a call without an image or with a point outside the
\* image leaves the mask as it is, and every call leaves the mask its size.
C34_CoreStep ==
    C34_CoreCalled =>
        IF core_mask = None \/ core_original_image = None
        THEN core_mask' = core_mask
        ELSE /\ core_mask'.w = core_mask.w /\ core_mask'.h = core_mask.h
             /\ DOMAIN core_mask'.px = DOMAIN core_mask.px
             /\ C34_Outside(core_mask, last_point'[1]) => core_mask' = core_mask

\* C34: no paint method of either remover, called without an image or with a
\* point outside the image, changes the mask's size or marks anything but the
\* brush at the point clamped into the image; it leaves the mask as it is
\* otherwise.
C34_BestEffort == [][C34_TabStep /\ C34_CoreStep]_vars

\* The tab's remover was handed the point (9, 9) beyond the canvas and has
\* marked the image's last pixel, and core's remover was handed (25, 5)
\* outside its image and has left its mask empty.
C34_Witness ==
    /\ stroke # None /\ stroke.op = "start_draw" /\ stroke.points = <<<<9, 9>>>>
    /\ image # None /\ mask # None
    /\ mask.px[<<image.w - 1, image.h - 1>>] = 255
    /\ mask.px[<<0, 0>>] = 0
    /\ last_point = <<<<25, 5>>>>
    /\ core_mask # None /\ MaskMax(core_mask) = 0

(***************************************************************************)
(* Properties of the snapshots' storage.                                   *)
(***************************************************************************)
\* C35: a press or a motion of the pointer, which paints on the mask in
\* place, leaves every snapshot up to the cursor as it was, the snapshot that
\* undo_mask or redo_mask has just restored included.
C35_PaintStep ==
    last_call' \in {"start_draw", "draw"}
        => \A i \in 1..(history_index + 1) :
               i \in DOMAIN mask_history => mask_history'[i] = mask_history[i]

C35_SnapshotsIsolated == [][C35_PaintStep]_vars

\* The pointer was pressed after an undo: the cursor is not at the last
\* snapshot, and the mask painted since differs from the snapshot at the
\* cursor, which undo_mask had restored.
C35_Witness ==
    /\ last_call = "start_draw"
    /\ mask # None
    /\ history_index >= 0
    /\ history_index < Len(mask_history) - 1
    /\ mask # mask_history[history_index + 1]
    /\ MaskMax(mask_history[history_index + 1]) = 0

(***************************************************************************)
(* Properties of a failed load.                                            *)
(***************************************************************************)
\* C36: a load_image that returns False, for a path that does not exist or a
\* file that does not decode, leaves the image, the original image, the mask,
\* the snapshots, the cursor and the result as they were.
C36_FailedLoadStep ==
    last_call' = "load_image" /\ ret' = "False"
        => UNCHANGED <<image, original_image, mask, mask_history,
                       history_index, result_image>>

C36_FailedLoadKeepsAll == [][C36_FailedLoadStep]_vars

(***************************************************************************)
(* Properties of the state batch_process leaves behind.                    *)
(***************************************************************************)
\* The return of batch_process puts back the mask and the algorithm of the
\* call (lines 769-771).
C37_RestoreStep ==
    core_pc = "pool" /\ core_pc' = "idle"
        => core_mask' = current_mask /\ core_algorithm' = current_algorithm

C37_MaskAndAlgorithmRestored == [][C37_RestoreStep]_vars

\* C37: between two calls on core.WatermarkRemover the mask and the original
\* image, when both are set, have the same width and height; batch_process in
\* particular returns the remover to the editing state of the call.
C37_MaskFitsImage ==
    core_pc = "idle" /\ core_mask # None /\ core_original_image # None
        => ~ShapeDiffers(core_mask, core_original_image)

(***************************************************************************)
(* SpecBatchFair: batches from launch to end.  The template is marked, the *)
(* sources and the output directory are chosen; the user starts and stops  *)
(* batches, and a progress or completion callback may raise.  The batch    *)
(* thread and the pool threads are operating-system threads: each of them  *)
(* that can take a step eventually takes one, and every item's processing  *)
(* is a finite run of such steps.  The user starts a batch while one is    *)
(* reported running (the start is rejected) or when no batch thread is     *)
(* left.                                                                   *)
(***************************************************************************)
\* A faulty except branch that leaves is_processing as it finds it.
AfterThreadErrorKept(flag) == flag

\* line 251: self.is_processing = False in the except branch of the thread
AfterThreadError(flag) == FALSE

\* lines 229-242 when progress_callback raises: the counters are updated, the
\* callback is entered and its exception leaves the for loop
ThreadProgressRaises(i) ==
    /\ thread_pc = "collect"
    /\ tasks[i].pc = "done"
    /\ ~tasks[i].yielded
    /\ ~should_stop
    /\ tasks' = [tasks EXCEPT ![i].yielded = TRUE]
    /\ IF tasks[i].ok = "True"
       THEN success_count' = success_count + 1 /\ UNCHANGED failed_paths
       ELSE failed_paths' = Append(failed_paths, tasks[i].path)
            /\ UNCHANGED success_count
    /\ processed_count' = processed_count + 1
    /\ progress_calls' = <<processed_count + 1, total_count>>
    /\ thread_pc' = "raised"
    /\ UNCHANGED <<editVars, template_mask, image_paths, output_dir,
                   is_processing, should_stop, inpaint_radius, algorithm,
                   max_workers, total_count, completing, files, complete_calls,
                   start_errors, threads_started, job>>

\* The exception leaves the with block (the executor waits for every submitted
\* task), then lines 250-255: the flag is reset and error_callback called.
ThreadError ==
    /\ thread_pc = "raised"
    /\ \A i \in DOMAIN tasks : tasks[i].pc = "done"
    /\ is_processing' = AfterThreadError(is_processing)
    /\ thread_pc' = "idle"
    /\ start_errors' = <<"batch thread error">>
    /\ UNCHANGED <<editVars, template_mask, image_paths, output_dir, counterVars,
                   should_stop, inpaint_radius, algorithm, max_workers,
                   total_count, tasks, completing, files, complete_calls,
                   progress_calls, threads_started, job>>

\* lines 247-255 when complete_callback raises: the callback is entered, its
\* exception reaches the except branch of the thread that called it
ThreadCompleteRaises(c) ==
    /\ c \in completing
    /\ completing' = completing \ {c}
    /\ complete_calls' = Append(complete_calls,
                                [batch |-> c.batch, success |-> success_count,
                                 total |-> c.total, failed |-> failed_paths])
    /\ is_processing' = AfterThreadError(is_processing)
    /\ start_errors' = <<"batch thread error">>
    /\ UNCHANGED <<editVars, template_mask, image_paths, output_dir, counterVars,
                   should_stop, inpaint_radius, algorithm, max_workers,
                   thread_pc, total_count, tasks, files, progress_calls,
                   threads_started, job>>

RunStart ==
    /\ is_processing \/ thread_pc = "idle"
    /\ StartBatchProcessing
    /\ Called
RunProgressRaises == (\E i \in DOMAIN tasks : ThreadProgressRaises(i)) /\ Stepped
RunThreadError == ThreadError /\ Stepped
RunCompleteRaises == (\E c \in completing : ThreadCompleteRaises(c)) /\ Stepped

\* A step of the batch thread up to the end of its try block or of its except
\* branch.
ThreadStep ==
    \/ BatchThreadBegin
    \/ BatchThreadSubmit
    \/ BatchThreadCollect
    \/ BatchThreadCollectEnd
    \/ BatchThreadFinish
    \/ RunProgressRaises
    \/ RunThreadError

\* A step of a pool thread.
WorkerStep ==
    \/ BatchWorkerRead
    \/ BatchWorkerInpaint
    \/ BatchWorkerName
    \/ BatchWorkerWrite

RunNext ==
    \/ RunStart
    \/ BatchStop
    \/ ThreadStep
    \/ WorkerStep
    \/ BatchThreadComplete
    \/ RunCompleteRaises

\* The batch tab with the template marked, the sources chosen by
\* set_batch_images and the directory by set_output_directory.
InitRun ==
    /\ TemplateMarked
    /\ InitSingle
    /\ InitScenario
    /\ InitView
    /\ InitCore
    /\ calls = 0
    /\ image_paths \in BatchLists
    /\ output_dir = "out"
    /\ processed_count = 0
    /\ success_count = 0
    /\ failed_paths = <<>>
    /\ is_processing = FALSE
    /\ should_stop = FALSE
    /\ inpaint_radius = 3
    /\ algorithm = "INPAINT_TELEA"
    /\ max_workers \in {DefaultMaxWorkers(c) : c \in CpuCounts}
    /\ thread_pc = "idle"
    /\ total_count = 0
    /\ template_mask = [kind |-> "unset"]
    /\ tasks = <<>>
    /\ completing = {}
    /\ files = {}
    /\ complete_calls = <<>>
    /\ start_errors = <<>>
    /\ progress_calls = <<>>
    /\ threads_started = 0
    /\ job = None

SpecBatchFair ==
    /\ InitRun
    /\ [][RunNext]_vars
    /\ WF_vars(ThreadStep)
    /\ WF_vars(WorkerStep)

\* C38: a batch that was launched does not stay Running: whenever
\* is_processing is true it is false again later, on the natural end, after
\* stop_processing and after an exception of a callback in the batch thread.
C38_BatchLeavesRunning == is_processing ~> ~is_processing

\* Two batches were launched, a callback has raised in the batch thread, and
\* no batch is running any more.
C38_Witness ==
    /\ threads_started = 2
    /\ ~is_processing
    /\ thread_pc = "idle"
    /\ start_errors = <<"batch thread error">>
    /\ Len(complete_calls) >= 1

(***************************************************************************)
(* SpecConfig: utils.config_manager.ConfigManager.  self.config and        *)
(* self.default_config are dictionaries whose values are scalars or        *)
(* references to nested dictionaries; dict.copy() copies the references,   *)
(* not the nested dictionaries.  A key is given by its parts,              *)
(* key.split("."); "." in key is Len(parts) > 1.                           *)
(***************************************************************************)
\* Keys and values handed to set_config and save_config: a top-level setting,
\* a nested setting, a nested setting of a new section, a setting under a
\* string, and the api_keys section itself.
ConfigKeys == {<<"theme">>, <<"api_keys", "volcano_engine_region">>,
               <<"extra", "depth">>, <<"theme", "shade">>, <<"api_keys">>}
ConfigValues == {Scalar("dark"), Scalar("us-east-1")}

\* Keys read back with get_config.
ReadKeys == ConfigKeys \cup {<<"api_keys", "volcano_engine_access_key">>}

\* config.json when the manager is built: absent, not JSON, or written by an
\* earlier run.
ConfigFiles ==
    {[missing |-> TRUE], [corrupt |-> TRUE],
     [json |-> ("theme" :> Scalar("dark"))],
     [json |-> ("api_keys" :> [d |-> ("volcano_engine_region" :> Scalar("eu"))])]}

IsRef(v) == "ref" \in DOMAIN v

\* What json.dump prints of a dictionary: references are followed.
Deep(cfg, hp) ==
    [k \in DOMAIN cfg |-> IF IsRef(cfg[k]) THEN [d |-> hp[cfg[k].ref]] ELSE cfg[k]]

\* _merge_configs(default, user), user read from JSON with at most one
\* dictionary among its values: result = default.copy(), a dictionary of user
\* is merged into a copy of the default's dictionary of the same key, any
\* other value of user replaces the default's
MergeConfigs(default, hp, user) ==
    LET dicts == {k \in DOMAIN user : "d" \in DOMAIN user[k]}
        merged(k) == IF k \in DOMAIN default /\ IsRef(default[k])
                     THEN user[k].d @@ hp[default[k].ref]
                     ELSE user[k].d
    IN  [config |-> [k \in DOMAIN user \cup DOMAIN default |->
                        IF k \notin DOMAIN user THEN default[k]
                        ELSE IF k \in dicts THEN Ref(Len(hp) + 1)
                        ELSE user[k]],
         heap |-> IF dicts = {} THEN hp
                  ELSE Append(hp, merged(CHOOSE k \in dicts : TRUE))]

\* load_config
LoadConfig(default, hp, file) ==
    IF "json" \in DOMAIN file THEN MergeConfigs(default, hp, file.json)
    ELSE [config |-> default, heap |-> hp]

\* _set_nested_config for a key of two parts: a missing section is created,
\* the value is stored in the dictionary the section refers to, and a section
\* that is a string raises TypeError
SetNestedConfig(cfg, hp, parts, value) ==
    IF parts[1] \notin DOMAIN cfg
    THEN [config |-> (parts[1] :> Ref(Len(hp) + 1)) @@ cfg,
          heap |-> Append(hp, (parts[2] :> value)),
          raised |-> FALSE]
    ELSE IF IsRef(cfg[parts[1]])
    THEN [config |-> cfg,
          heap |-> [hp EXCEPT ![cfg[parts[1]].ref] = (parts[2] :> value) @@ @],
          raised |-> FALSE]
    ELSE [config |-> cfg, heap |-> hp, raised |-> TRUE]

\* lines 205-208 and 122-125: the assignment of set_config and save_config
Assigned(cfg, hp, parts, value) ==
    IF Len(parts) > 1 THEN SetNestedConfig(cfg, hp, parts, value)
    ELSE [config |-> (parts[1] :> value) @@ cfg, heap |-> hp, raised |-> FALSE]

\* Reading a key in a printed dictionary: KeyError and TypeError give default.
Lookup(deep, parts, default) ==
    IF parts[1] \notin DOMAIN deep THEN default
    ELSE IF Len(parts) = 1 THEN deep[parts[1]]
    ELSE IF "d" \notin DOMAIN deep[parts[1]] THEN default
    ELSE IF parts[2] \notin DOMAIN deep[parts[1]].d THEN default
    ELSE deep[parts[1]].d[parts[2]]

\* get_config(key, default)
GetConfig(parts, default) == Lookup(Deep(config, settings_heap), parts, default)

\* A call on the manager.
Configured(name, value) ==
    /\ calls < MaxCalls
    /\ calls' = calls + 1
    /\ config_ret' = [call |-> name, ret |-> value]
    /\ UNCHANGED <<editVars, singleVars, batchVars, scenarioVars, coreVars,
                   canvas, coords, stroke, default_config>>

\* The assignment, then lines 128-129: json.dump of self.config, which fails
\* when the file cannot be written.
Stored(name, parts, value, writable) ==
    LET a == Assigned(config, settings_heap, parts, value)
    IN  IF a.raised
        THEN /\ UNCHANGED <<config, settings_heap, config_file>>
             /\ Configured(name, FALSE)
        ELSE /\ config' = a.config
             /\ settings_heap' = a.heap
             /\ config_file' = IF writable THEN [json |-> Deep(a.config, a.heap)]
                               ELSE config_file
             /\ Configured(name, writable)

\* set_config(key, value)
SetConfig(parts, value, writable) == Stored("set_config", parts, value, writable)

\* save_config(key, value)
SaveConfig(parts, value, writable) == Stored("save_config", parts, value, writable)

\* reset_config
ResetConfig(writable) ==
    /\ config' = default_config
    /\ config_file' = IF writable THEN [json |-> Deep(default_config, settings_heap)]
                      ELSE config_file
    /\ UNCHANGED settings_heap
    /\ Configured("reset_config", writable)

ConfigSet ==
    \E parts \in ConfigKeys, value \in ConfigValues, writable \in BOOLEAN :
        SetConfig(parts, value, writable)
ConfigSave ==
    \E parts \in ConfigKeys, value \in ConfigValues, writable \in BOOLEAN :
        SaveConfig(parts, value, writable)
ConfigReset == \E writable \in BOOLEAN : ResetConfig(writable)

ConfigNext ==
    \/ ConfigSet
    \/ ConfigSave
    \/ ConfigReset

\* ConfigManager.__init__ with any of the files.
InitSettings ==
    /\ InitEdit
    /\ InitSingle
    /\ InitBatch
    /\ InitScenario
    /\ InitCore
    /\ calls = 0
    /\ canvas = <<4, 4>>
    /\ coords = None
    /\ stroke = None
    /\ default_config = ("api_keys" :> Ref(1)) @@ ("theme" :> Scalar("light"))
    /\ \E file \in ConfigFiles :
           LET loaded == LoadConfig(default_config,
                                    <<DefaultSettings["api_keys"].d>>, file)
           IN  /\ config = loaded.config
               /\ settings_heap = loaded.heap
               /\ config_file = IF "missing" \in DOMAIN file THEN None ELSE file
    /\ config_ret = None

SpecConfig == InitSettings /\ [][ConfigNext]_vars

\* C39: after reset_config has returned, get_config gives for every key, the
\* nested ones included, the value __init__ wrote into the defaults, whatever
\* set_config and save_config calls came before.
C39_ResetRestoresDefaults ==
    (config_ret # None /\ config_ret.call = "reset_config")
        => \A parts \in ReadKeys :
               GetConfig(parts, None) = Lookup(DefaultSettings, parts, None)
====
